---- MODULE Spec2Model ----
(***************************************************************************)
(* A model of the mocap-to-blender backend: the recording manager          *)
(* (recording.py), the bone retargeter (retargeting.py), the smoothing     *)
(* filters (smoother.py), the static bone hierarchy (skeleton.py) and the  *)
(* BVH exporter (exporters/bvh_exporter.py).                               *)
(*                                                                         *)
(* Numbers.  Landmark coordinates are integers counting hundredths of a    *)
(* unit (x = 25 stands for the float 0.25).  An OFFSET value is an integer *)
(* counting 1/10000 (what "%.4f" prints), a MOTION value an integer        *)
(* counting 1/1000000 (what "%.6f" prints).  On this grid the exporter's   *)
(* halvings and its scaling by 100 are exact, so the float arithmetic is   *)
(* modelled by exact integer arithmetic; signed zeros and rounding of      *)
(* values off the grid are outside the model.                              *)
(***************************************************************************)
EXTENDS Integers, Sequences, FiniteSets, TLC

None == "None"

\* ------------------------------------------------------------------------
\* skeleton.py
\* ------------------------------------------------------------------------

NOSE == 0
LEFT_SHOULDER == 11
RIGHT_SHOULDER == 12
LEFT_ELBOW == 13
RIGHT_ELBOW == 14
LEFT_WRIST == 15
RIGHT_WRIST == 16
LEFT_INDEX == 19
RIGHT_INDEX == 20
LEFT_HIP == 23
RIGHT_HIP == 24
LEFT_KNEE == 25
RIGHT_KNEE == 26
LEFT_ANKLE == 27
RIGHT_ANKLE == 28
LEFT_HEEL == 29
RIGHT_HEEL == 30
LEFT_FOOT_INDEX == 31
RIGHT_FOOT_INDEX == 32

\* The keys of BONE_HIERARCHY, in the order of the dict literal.
BoneNames ==
    << "Hips", "Spine", "Chest", "Neck", "Head",
       "LeftShoulder", "LeftUpperArm", "LeftForeArm", "LeftHand",
       "RightShoulder", "RightUpperArm", "RightForeArm", "RightHand",
       "LeftUpLeg", "LeftLeg", "LeftFoot",
       "RightUpLeg", "RightLeg", "RightFoot" >>

Bones == { BoneNames[i] : i \in 1..Len(BoneNames) }

\* BONE_HIERARCHY: per bone its 'parent' (None: the key is absent), its
\* 'children' list and its default 'offset', the latter in hundredths.
BONE_HIERARCHY_misparent ==
    [ Hips          |-> [parent |-> None,            children |-> <<"Spine", "LeftUpLeg", "RightUpLeg">>,           offset |-> <<0, 0, 0>>],
      Spine         |-> [parent |-> "Hips",          children |-> <<"Chest">>,                                      offset |-> <<0, 10, 0>>],
      Chest         |-> [parent |-> "Spine",         children |-> <<"Neck", "LeftShoulder", "RightShoulder">>,      offset |-> <<0, 15, 0>>],
      Neck          |-> [parent |-> "Chest",         children |-> <<"Head">>,                                       offset |-> <<0, 10, 0>>],
      Head          |-> [parent |-> "Neck",          children |-> <<>>,                                             offset |-> <<0, 10, 0>>],
      LeftShoulder  |-> [parent |-> "Chest",         children |-> <<"LeftUpperArm">>,                               offset |-> <<-5, 5, 0>>],
      LeftUpperArm  |-> [parent |-> "LeftShoulder",  children |-> <<"LeftForeArm">>,                                offset |-> <<-25, 0, 0>>],
      LeftForeArm   |-> [parent |-> "LeftUpperArm",  children |-> <<"LeftHand">>,                                   offset |-> <<-25, 0, 0>>],
      LeftHand      |-> [parent |-> "LeftUpperArm",  children |-> <<>>,                                             offset |-> <<-10, 0, 0>>],
      RightShoulder |-> [parent |-> "Chest",         children |-> <<"RightUpperArm">>,                              offset |-> <<5, 5, 0>>],
      RightUpperArm |-> [parent |-> "RightShoulder", children |-> <<"RightForeArm">>,                               offset |-> <<25, 0, 0>>],
      RightForeArm  |-> [parent |-> "RightUpperArm", children |-> <<"RightHand">>,                                  offset |-> <<25, 0, 0>>],
      RightHand     |-> [parent |-> "RightForeArm",  children |-> <<>>,                                             offset |-> <<10, 0, 0>>],
      LeftUpLeg     |-> [parent |-> "Hips",          children |-> <<"LeftLeg">>,                                    offset |-> <<-10, -5, 0>>],
      LeftLeg       |-> [parent |-> "LeftUpLeg",     children |-> <<"LeftFoot">>,                                   offset |-> <<0, -40, 0>>],
      LeftFoot      |-> [parent |-> "LeftLeg",       children |-> <<>>,                                             offset |-> <<0, -40, 0>>],
      RightUpLeg    |-> [parent |-> "Hips",          children |-> <<"RightLeg">>,                                   offset |-> <<10, -5, 0>>],
      RightLeg      |-> [parent |-> "RightUpLeg",    children |-> <<"RightFoot">>,                                  offset |-> <<0, -40, 0>>],
      RightFoot     |-> [parent |-> "RightLeg",      children |-> <<>>,                                             offset |-> <<0, -40, 0>>] ]

BONE_HIERARCHY ==
    [ Hips          |-> [parent |-> None,            children |-> <<"Spine", "LeftUpLeg", "RightUpLeg">>,           offset |-> <<0, 0, 0>>],
      Spine         |-> [parent |-> "Hips",          children |-> <<"Chest">>,                                      offset |-> <<0, 10, 0>>],
      Chest         |-> [parent |-> "Spine",         children |-> <<"Neck", "LeftShoulder", "RightShoulder">>,      offset |-> <<0, 15, 0>>],
      Neck          |-> [parent |-> "Chest",         children |-> <<"Head">>,                                       offset |-> <<0, 10, 0>>],
      Head          |-> [parent |-> "Neck",          children |-> <<>>,                                             offset |-> <<0, 10, 0>>],
      LeftShoulder  |-> [parent |-> "Chest",         children |-> <<"LeftUpperArm">>,                               offset |-> <<-5, 5, 0>>],
      LeftUpperArm  |-> [parent |-> "LeftShoulder",  children |-> <<"LeftForeArm">>,                                offset |-> <<-25, 0, 0>>],
      LeftForeArm   |-> [parent |-> "LeftUpperArm",  children |-> <<"LeftHand">>,                                   offset |-> <<-25, 0, 0>>],
      LeftHand      |-> [parent |-> "LeftForeArm",   children |-> <<>>,                                             offset |-> <<-10, 0, 0>>],
      RightShoulder |-> [parent |-> "Chest",         children |-> <<"RightUpperArm">>,                              offset |-> <<5, 5, 0>>],
      RightUpperArm |-> [parent |-> "RightShoulder", children |-> <<"RightForeArm">>,                               offset |-> <<25, 0, 0>>],
      RightForeArm  |-> [parent |-> "RightUpperArm", children |-> <<"RightHand">>,                                  offset |-> <<25, 0, 0>>],
      RightHand     |-> [parent |-> "RightForeArm",  children |-> <<>>,                                             offset |-> <<10, 0, 0>>],
      LeftUpLeg     |-> [parent |-> "Hips",          children |-> <<"LeftLeg">>,                                    offset |-> <<-10, -5, 0>>],
      LeftLeg       |-> [parent |-> "LeftUpLeg",     children |-> <<"LeftFoot">>,                                   offset |-> <<0, -40, 0>>],
      LeftFoot      |-> [parent |-> "LeftLeg",       children |-> <<>>,                                             offset |-> <<0, -40, 0>>],
      RightUpLeg    |-> [parent |-> "Hips",          children |-> <<"RightLeg">>,                                   offset |-> <<10, -5, 0>>],
      RightLeg      |-> [parent |-> "RightUpLeg",    children |-> <<"RightFoot">>,                                  offset |-> <<0, -40, 0>>],
      RightFoot     |-> [parent |-> "RightLeg",      children |-> <<>>,                                             offset |-> <<0, -40, 0>>] ]

\* BONE_HIERARCHY.get(bone, {}).get('children', [])
ChildrenOf(bone) ==
    IF bone \in DOMAIN BONE_HIERARCHY THEN BONE_HIERARCHY[bone].children ELSE <<>>

\* ------------------------------------------------------------------------
\* Landmark lists
\* ------------------------------------------------------------------------

\* A landmark list is a sequence of [x, y, z] records (the dicts' 'x', 'y',
\* 'z'; 'visibility' is read by no code modelled here).  Python index i is
\* position i + 1 of the sequence.
MaxLandmarks == 34
NumPoses == 3

\* The coordinates of landmark i in pose k, in hundredths.  Pose 1 is a
\* T-pose, pose 2 bends every limb along another axis, pose 3 puts every
\* landmark on one point (zero-length bones).
PoseCoord(k, i) ==
    IF k = 1 THEN
        CASE i = NOSE           -> <<0, 60, 0>>
          [] i = LEFT_SHOULDER  -> <<-20, 40, 0>>
          [] i = RIGHT_SHOULDER -> <<20, 40, 0>>
          [] i = LEFT_ELBOW     -> <<-50, 40, 0>>
          [] i = RIGHT_ELBOW    -> <<50, 40, 0>>
          [] i = LEFT_WRIST     -> <<-80, 40, 0>>
          [] i = RIGHT_WRIST    -> <<80, 40, 0>>
          [] i = LEFT_INDEX     -> <<-90, 40, 0>>
          [] i = RIGHT_INDEX    -> <<90, 40, 0>>
          [] i = LEFT_HIP       -> <<-10, 0, 0>>
          [] i = RIGHT_HIP      -> <<10, 0, 0>>
          [] i = LEFT_KNEE      -> <<-10, -40, 0>>
          [] i = RIGHT_KNEE     -> <<10, -40, 0>>
          [] i = LEFT_ANKLE     -> <<-10, -80, 0>>
          [] i = RIGHT_ANKLE    -> <<10, -80, 0>>
          [] OTHER              -> <<i, i, 0>>
    ELSE IF k = 2 THEN
        CASE i = NOSE           -> <<0, 40, 20>>
          [] i = LEFT_SHOULDER  -> <<-20, 40, 0>>
          [] i = RIGHT_SHOULDER -> <<20, 40, 0>>
          [] i = LEFT_ELBOW     -> <<-20, 40, 30>>
          [] i = RIGHT_ELBOW    -> <<20, 40, -30>>
          [] i = LEFT_WRIST     -> <<-20, 10, 30>>
          [] i = RIGHT_WRIST    -> <<60, 40, -30>>
          [] i = LEFT_INDEX     -> <<-20, 0, 30>>
          [] i = RIGHT_INDEX    -> <<70, 40, -30>>
          [] i = LEFT_HIP       -> <<-12, 0, 0>>
          [] i = RIGHT_HIP      -> <<12, 0, 0>>
          [] i = LEFT_KNEE      -> <<-12, 0, 40>>
          [] i = RIGHT_KNEE     -> <<52, 0, 0>>
          [] i = LEFT_ANKLE     -> <<-12, -40, 40>>
          [] i = RIGHT_ANKLE    -> <<52, 0, -40>>
          [] OTHER              -> <<0, i, i>>
    ELSE <<k, k, k>>

\* An Optional[List]: None, or a list.
NoneList == [is_none |-> TRUE, list |-> <<>>]
Some(list) == [is_none |-> FALSE, list |-> list]
\* Python's truth value of an optional list: neither None nor empty.
Truthy(opt) == ~opt.is_none /\ opt.list # <<>>

\* The first n landmarks of pose k.
Pose(k, n) ==
    [ i \in 1..n |-> [x |-> PoseCoord(k, i - 1)[1],
                      y |-> PoseCoord(k, i - 1)[2],
                      z |-> PoseCoord(k, i - 1)[3]] ]

\* lm_array[i]: the row [lm['x'], lm['y'], lm['z']] of landmark i.
Row(landmarks, i) == <<landmarks[i + 1].x, landmarks[i + 1].y, landmarks[i + 1].z>>

\* numpy's elementwise arithmetic on 3-vectors.
VAdd(a, b) == <<a[1] + b[1], a[2] + b[2], a[3] + b[3]>>
VSub(a, b) == <<a[1] - b[1], a[2] - b[2], a[3] - b[3]>>
VScale(k, a) == <<k * a[1], k * a[2], k * a[3]>>
Dot(a, b) == a[1] * b[1] + a[2] * b[2] + a[3] * b[3]
Cross(a, b) ==
    << a[2] * b[3] - a[3] * b[2],
       a[3] * b[1] - a[1] * b[3],
       a[1] * b[2] - a[2] * b[1] >>

\* ------------------------------------------------------------------------
\* retargeting.py
\* ------------------------------------------------------------------------

RECURSIVE GCD(_, _)
GCD(a, b) == IF b = 0 THEN a ELSE GCD(b, a % b)

Sgn(v) == IF v > 0 THEN 1 ELSE IF v < 0 THEN -1 ELSE 0

\* A quaternion component is kept exactly, as the signed square root of a
\* fraction: [s, n, d] stands for s * sqrt(n / d), with n / d in lowest terms.
\* NaN is what numpy's 0 / 0 yields: it is kept as the fraction 0 / 0.
NaN == [s |-> 0, n |-> 0, d |-> 0]
Comp(s, n, d) ==
    IF s = 0 \/ n = 0 THEN [s |-> 0, n |-> 0, d |-> 1]
    ELSE [s |-> s, n |-> n \div GCD(n, d), d |-> d \div GCD(n, d)]
Zero == Comp(0, 0, 1)
One == Comp(1, 1, 1)
\* [1.0, 0.0, 0.0, 0.0]
IdentityQuat == <<One, Zero, Zero, Zero>>

\* The largest r in lo..hi with r * r <= n.
RECURSIVE SqrtSearch(_, _, _)
SqrtSearch(n, lo, hi) ==
    IF lo >= hi THEN lo
    ELSE LET mid == (lo + hi + 1) \div 2
         IN  IF mid * mid <= n THEN SqrtSearch(n, mid, hi)
             ELSE SqrtSearch(n, lo, mid - 1)

\* vector_to_rotation on integer vectors.  The 1e-8 added to the norms is
\* dropped for a nonzero vector; a zero vector stays zero when divided.  For
\* integer vectors small enough for the products below, the cross product of
\* the normalised vectors is shorter than 1e-6 exactly when it is zero.  The
\* general branch needs |vec_from| * |vec_to| to be an integer r: then
\* cos(angle) = dot / r, w^2 = (r + dot) / 2r and the square of each other
\* component is axis_i^2 * (r - dot) / 2r = cross_i^2 / (2r (r + dot)).
\* 'np.dot(vec_from, vec_to) > 0' for the normalised vectors.
SameDirection_never(vec_from, vec_to) == FALSE

SameDirection(vec_from, vec_to) ==
    /\ Dot(vec_from, vec_from) # 0
    /\ Dot(vec_to, vec_to) # 0
    /\ Dot(vec_from, vec_to) > 0

\* The vector the axis of a half turn is taken across: [1, 0, 0], or
\* [0, 1, 0] 'if abs(vec_from[0]) > 0.9' for the normalised vec_from.
perpendicular_always_x(vec_from) == <<1, 0, 0>>

perpendicular(vec_from) ==
    IF Dot(vec_from, vec_from) # 0
       /\ 100 * vec_from[1] * vec_from[1] > 81 * Dot(vec_from, vec_from)
    THEN <<0, 1, 0>> ELSE <<1, 0, 0>>

vector_to_rotation(vec_from, vec_to) ==
    LET ff   == Dot(vec_from, vec_from)
        tt   == Dot(vec_to, vec_to)
        axis == Cross(vec_from, vec_to)
        dt   == Dot(vec_from, vec_to)
    IN  IF ff = 0 \/ tt = 0 \/ Dot(axis, axis) = 0 THEN
            IF SameDirection(vec_from, vec_to) THEN IdentityQuat
            ELSE
                LET ax == Cross(vec_from, perpendicular(vec_from))
                    aa == Dot(ax, ax)
                IN  IF aa = 0 THEN <<Zero, NaN, NaN, NaN>>
                    ELSE << Zero,
                            Comp(Sgn(ax[1]), ax[1] * ax[1], aa),
                            Comp(Sgn(ax[2]), ax[2] * ax[2], aa),
                            Comp(Sgn(ax[3]), ax[3] * ax[3], aa) >>
        ELSE
            LET r == SqrtSearch(ff * tt, 0, 46340)
            IN  CASE r * r = ff * tt ->
                    << Comp(1, r + dt, 2 * r),
                       Comp(Sgn(axis[1]), axis[1] * axis[1], 2 * r * (r + dt)),
                       Comp(Sgn(axis[2]), axis[2] * axis[2], 2 * r * (r + dt)),
                       Comp(Sgn(axis[3]), axis[3] * axis[3], 2 * r * (r + dt)) >>

\* calculate_bone_rotation with its default reference_direction [0, 1, 0].
calculate_bone_rotation(start_pos, end_pos) ==
    vector_to_rotation(<<0, 1, 0>>, VSub(end_pos, start_pos))

\* A bone position is kept in quarter-hundredths (the float times 400), the
\* grid on which the mean of four landmarks is exact.
retarget_bones(landmarks) ==
    LET lm(i)     == Row(landmarks, i)
        hips_pos  == VScale(2, VAdd(lm(23), lm(24)))
        spine_pos == VAdd(VAdd(lm(11), lm(12)), VAdd(lm(23), lm(24)))
        chest_pos == VScale(2, VAdd(lm(11), lm(12)))
        neck_pos  == chest_pos
        head_pos  == VScale(4, lm(0))
        P(i)      == VScale(4, lm(i))
    IN  [ Hips          |-> [position |-> hips_pos,  rotation |-> IdentityQuat],
          Spine         |-> [position |-> spine_pos, rotation |-> calculate_bone_rotation(hips_pos, chest_pos)],
          Chest         |-> [position |-> chest_pos, rotation |-> IdentityQuat],
          Neck          |-> [position |-> neck_pos,  rotation |-> calculate_bone_rotation(neck_pos, head_pos)],
          Head          |-> [position |-> head_pos,  rotation |-> IdentityQuat],
          LeftShoulder  |-> [position |-> P(11),     rotation |-> IdentityQuat],
          LeftUpperArm  |-> [position |-> P(11),     rotation |-> calculate_bone_rotation(lm(11), lm(13))],
          LeftForeArm   |-> [position |-> P(13),     rotation |-> calculate_bone_rotation(lm(13), lm(15))],
          LeftHand      |-> [position |-> P(15),     rotation |-> IdentityQuat],
          RightShoulder |-> [position |-> P(12),     rotation |-> IdentityQuat],
          RightUpperArm |-> [position |-> P(12),     rotation |-> calculate_bone_rotation(lm(12), lm(14))],
          RightForeArm  |-> [position |-> P(14),     rotation |-> calculate_bone_rotation(lm(14), lm(16))],
          RightHand     |-> [position |-> P(16),     rotation |-> IdentityQuat],
          LeftUpLeg     |-> [position |-> P(23),     rotation |-> calculate_bone_rotation(lm(23), lm(25))],
          LeftLeg       |-> [position |-> P(25),     rotation |-> calculate_bone_rotation(lm(25), lm(27))],
          LeftFoot      |-> [position |-> P(27),     rotation |-> IdentityQuat],
          RightUpLeg    |-> [position |-> P(24),     rotation |-> calculate_bone_rotation(lm(24), lm(26))],
          RightLeg      |-> [position |-> P(26),     rotation |-> calculate_bone_rotation(lm(26), lm(28))],
          RightFoot     |-> [position |-> P(28),     rotation |-> IdentityQuat] ]

\* The empty dict {} is the function with the empty domain.
EmptyMapping == << >>

\* What retarget_to_blender yields when it raises instead of returning a
\* mapping.
Raised(exc) == [raised |-> exc]
IsRaised(v) == "raised" \in DOMAIN v

\* The body of retarget_to_blender after its guard: lm_array[i] raises
\* IndexError when the list has no index i (the largest one read is 28).
retarget_body(landmarks) ==
    IF Len(landmarks) <= RIGHT_ANKLE THEN Raised("IndexError")
    ELSE retarget_bones(landmarks)

\* The landmark count the guard of retarget_to_blender compares with.
RequiredLandmarks == 33

retarget_to_blender_le(landmarks) ==
    IF Len(landmarks) = 0 \/ Len(landmarks) < RequiredLandmarks - 1
    THEN EmptyMapping
    ELSE retarget_body(landmarks)

\* retarget_to_blender: 'if not landmarks or len(landmarks) < 33: return {}'.
retarget_to_blender(landmarks) ==
    IF Len(landmarks) = 0 \/ Len(landmarks) < RequiredLandmarks
    THEN EmptyMapping
    ELSE retarget_body(landmarks)

\* quaternion_to_euler followed by numpy.degrees: the extrinsic x-y-z Euler
\* angles of the rotation, in whole degrees <<x, y, z>>.  Covered are the
\* quaternions the retargeter builds from axis-aligned bones: a rotation
\* about the x or the z axis by a multiple of 90 degrees.  A half turn keeps
\* the sign of the quaternion's vector part.
HalfAngleDeg(w, v) ==
    CASE w = One /\ v = Zero                          -> 0
      [] w = Comp(1, 1, 2) /\ v = Comp(1, 1, 2)       -> 90
      [] w = Comp(1, 1, 2) /\ v = Comp(-1, 1, 2)      -> -90
      [] w = Zero /\ v = One                          -> 180
      [] w = Zero /\ v = Comp(-1, 1, 1)               -> -180

quaternion_to_euler(quat) ==
    CASE quat[2] = Zero /\ quat[3] = Zero -> <<0, 0, HalfAngleDeg(quat[1], quat[4])>>
      [] quat[3] = Zero /\ quat[4] = Zero -> <<HalfAngleDeg(quat[1], quat[2]), 0, 0>>

\* ------------------------------------------------------------------------
\* exporters/bvh_exporter.py: the text
\* ------------------------------------------------------------------------

\* A printed number: f'{v:.<k>f}' of the value v / 10^k, as its sign, its
\* integer part and its k fraction digits.
RECURSIVE Digits(_, _)
Digits(n, k) == IF k = 0 THEN <<>> ELSE Append(Digits(n \div 10, k - 1), n % 10)

RECURSIVE Pow10(_)
Pow10(k) == IF k = 0 THEN 1 ELSE 10 * Pow10(k - 1)

Abs(v) == IF v < 0 THEN -v ELSE v

Fixed(v, k) ==
    [neg |-> v < 0, int |-> Abs(v) \div Pow10(k), frac |-> Digits(Abs(v) % Pow10(k), k)]

\* The literal '0.0' of the root's OFFSET line.
Literal00 == [neg |-> FALSE, int |-> 0, frac |-> <<0>>]

\* A line of text: its leading spaces and its space-separated fields.
Line(indent, words) == [indent |-> indent, words |-> words]

\* SCALE_FACTOR = 100.0
SCALE_FACTOR == 100

\* bone_order, as _get_bone_order returns it.
bone_order_swapped ==
    << "Hips", "Spine", "Chest", "Neck", "Head",
       "RightShoulder", "RightUpperArm", "RightForeArm", "RightHand",
       "LeftShoulder", "LeftUpperArm", "LeftForeArm", "LeftHand",
       "LeftUpLeg", "LeftLeg", "LeftFoot",
       "RightUpLeg", "RightLeg", "RightFoot" >>

bone_order ==
    << "Hips", "Spine", "Chest", "Neck", "Head",
       "LeftShoulder", "LeftUpperArm", "LeftForeArm", "LeftHand",
       "RightShoulder", "RightUpperArm", "RightForeArm", "RightHand",
       "LeftUpLeg", "LeftLeg", "LeftFoot",
       "RightUpLeg", "RightLeg", "RightFoot" >>

\* The default offsets {bone: info.get('offset', [0, 0, 0])}, in 1/10000:
\* they are used as they stand, without SCALE_FACTOR.
DefaultOffsets == [ b \in Bones |-> VScale(100, BONE_HIERARCHY[b].offset) ]

\* The landmark list the offsets are computed from: the first frame's
\* world_landmarks, or its landmarks 'if not world_landmarks'.
OffsetSource(first_frame) ==
    IF ~Truthy(first_frame.world_landmarks)
    THEN first_frame.landmarks
    ELSE first_frame.world_landmarks.list

\* The offset _calculate_bone_offsets assigns to a bone, in 1/10000.  With
\* the coordinates in hundredths, (b - a) * SCALE_FACTOR is (b - a) * 10000
\* and each halving halves the factor.  spine4 and neck4 are four times
\* (shoulders_pos - hips_pos) * 0.5 and (nose - shoulders_pos) * 0.5.
BoneOffset(bone, lms) ==
    LET lm(i)   == Row(lms, i)
        H       == SCALE_FACTOR * SCALE_FACTOR
        spine4  == VSub(VAdd(lm(LEFT_SHOULDER), lm(RIGHT_SHOULDER)), VAdd(lm(LEFT_HIP), lm(RIGHT_HIP)))
        neck4   == VSub(VScale(2, lm(NOSE)), VAdd(lm(LEFT_SHOULDER), lm(RIGHT_SHOULDER)))
    IN  CASE bone = "Hips"          -> <<0, 0, 0>>
          [] bone = "Spine"         -> VScale(H \div 4, spine4)
          [] bone = "Chest"         -> VScale(H \div 4, spine4)
          [] bone = "Neck"          -> VScale(H \div 4, neck4)
          [] bone = "Head"          -> VScale(H \div 4, neck4)
          [] bone = "LeftShoulder"  -> VScale(H \div 2, VSub(lm(LEFT_SHOULDER), lm(RIGHT_SHOULDER)))
          [] bone = "LeftUpperArm"  -> VScale(H, VSub(lm(LEFT_ELBOW), lm(LEFT_SHOULDER)))
          [] bone = "LeftForeArm"   -> VScale(H, VSub(lm(LEFT_WRIST), lm(LEFT_ELBOW)))
          [] bone = "LeftHand"      -> VScale(H \div 2, VSub(lm(LEFT_INDEX), lm(LEFT_WRIST)))
          [] bone = "RightShoulder" -> VScale(H \div 2, VSub(lm(RIGHT_SHOULDER), lm(LEFT_SHOULDER)))
          [] bone = "RightUpperArm" -> VScale(H, VSub(lm(RIGHT_ELBOW), lm(RIGHT_SHOULDER)))
          [] bone = "RightForeArm"  -> VScale(H, VSub(lm(RIGHT_WRIST), lm(RIGHT_ELBOW)))
          [] bone = "RightHand"     -> VScale(H \div 2, VSub(lm(RIGHT_INDEX), lm(RIGHT_WRIST)))
          [] bone = "LeftUpLeg"     -> VScale(H \div 2, VSub(lm(LEFT_HIP), lm(RIGHT_HIP)))
          [] bone = "LeftLeg"       -> VScale(H, VSub(lm(LEFT_KNEE), lm(LEFT_HIP)))
          [] bone = "LeftFoot"      -> VScale(H, VSub(lm(LEFT_ANKLE), lm(LEFT_KNEE)))
          [] bone = "RightUpLeg"    -> VScale(H \div 2, VSub(lm(RIGHT_HIP), lm(LEFT_HIP)))
          [] bone = "RightLeg"      -> VScale(H, VSub(lm(RIGHT_KNEE), lm(RIGHT_HIP)))
          [] bone = "RightFoot"     -> VScale(H, VSub(lm(RIGHT_ANKLE), lm(RIGHT_KNEE)))

\* How many entries bone_offsets holds when an index error stops the
\* computation: 'Hips' is assigned before landmarks 23 and 24 are read,
\* 'LeftLeg' reads 25, 'LeftFoot' 27, 'RightLeg' 26 and 'RightFoot' 28.
\* 19 means that nothing raised.
AssignedBefore(n) ==
    IF n <= RIGHT_HIP THEN 1
    ELSE IF n <= LEFT_KNEE THEN 14
    ELSE IF n <= LEFT_ANKLE THEN 15
    ELSE IF n <= RIGHT_ANKLE THEN 18
    ELSE 19

\* _calculate_bone_offsets: the new self.bone_offsets and whether the call
\* raised.  The assignments follow the order of BoneNames; an IndexError
\* leaves the entries assigned before it.
calculate_bone_offsets_stale(bone_offsets, recording) ==
    IF recording.frames = <<>> THEN
        [bone_offsets |-> bone_offsets, raised |-> FALSE]
    ELSE
        LET lms == OffsetSource(recording.frames[1])
            k   == AssignedBefore(Len(lms))
        IN  [bone_offsets |-> [ b \in { BoneNames[i] : i \in 1..k } |-> BoneOffset(b, lms) ],
             raised       |-> k < Len(BoneNames)]

calculate_bone_offsets_last(bone_offsets, recording) ==
    IF recording.frames = <<>> THEN
        [bone_offsets |-> DefaultOffsets, raised |-> FALSE]
    ELSE
        LET lms == OffsetSource(recording.frames[Len(recording.frames)])
            k   == AssignedBefore(Len(lms))
        IN  [bone_offsets |-> [ b \in { BoneNames[i] : i \in 1..k } |-> BoneOffset(b, lms) ],
             raised       |-> k < Len(BoneNames)]

calculate_bone_offsets(bone_offsets, recording) ==
    IF recording.frames = <<>> THEN
        [bone_offsets |-> DefaultOffsets, raised |-> FALSE]
    ELSE
        LET lms == OffsetSource(recording.frames[1])
            k   == AssignedBefore(Len(lms))
        IN  [bone_offsets |-> [ b \in { BoneNames[i] : i \in 1..k } |-> BoneOffset(b, lms) ],
             raised       |-> k < Len(BoneNames)]

\* MIN_END_SITE_OFFSET = 5.0, in 1/10000.
MIN_END_SITE_OFFSET == 50000

\* 'bone_length > 1.0' for an offset in 1/10000 (the offsets of the model
\* are multiples of 1/100, on which the division below is exact).
LongerThanOne_orequal(offset) ==
    LET h == <<offset[1] \div 100, offset[2] \div 100, offset[3] \div 100>>
    IN  Dot(h, h) >= 10000

LongerThanOne(offset) ==
    LET h == <<offset[1] \div 100, offset[2] \div 100, offset[3] \div 100>>
    IN  Dot(h, h) > 10000

\* The End Site offset of a leaf bone.
EndSiteOffset(offset) ==
    IF LongerThanOne(offset)
    THEN <<offset[1] \div 10, offset[2] \div 10, offset[3] \div 10>>
    ELSE <<0, MIN_END_SITE_OFFSET, 0>>

OffsetLine(indent, offset) ==
    Line(indent, <<"OFFSET", Fixed(offset[1], 4), Fixed(offset[2], 4), Fixed(offset[3], 4)>>)

\* self.bone_offsets.get(child_name, child_info.get('offset', [0, 0, 0]))
OffsetOf(bone_offsets, child_name) ==
    IF child_name \in DOMAIN bone_offsets THEN bone_offsets[child_name]
    ELSE IF child_name \in DOMAIN BONE_HIERARCHY THEN DefaultOffsets[child_name]
    ELSE <<0, 0, 0>>

\* 'if not child_info['children']': the joints that get an End Site block.
HasEndSite_any(child_name) == TRUE

HasEndSite(child_name) == ChildrenOf(child_name) = <<>>

\* _add_bone_hierarchy(lines, bone_name, indent): the lines it appends, that
\* is the blocks of bone_name's children from the i-th child on.
RECURSIVE add_bone_hierarchy_from(_, _, _, _)
add_bone_hierarchy_from(bone_offsets, bone_name, indent, i) ==
    LET children == ChildrenOf(bone_name)
    IN  IF i > Len(children) THEN <<>>
        ELSE
            LET child_name == children[i]
                offset     == OffsetOf(bone_offsets, child_name)
                sp         == 2 * indent
                head       == << Line(sp, <<"JOINT", child_name>>),
                                 Line(sp, <<"{">>),
                                 OffsetLine(sp + 2, offset),
                                 Line(sp + 2, <<"CHANNELS", "3", "Zrotation", "Xrotation", "Yrotation">>) >>
                nested     == add_bone_hierarchy_from(bone_offsets, child_name, indent + 1, 1)
                end_site   == IF HasEndSite(child_name)
                              THEN << Line(sp + 2, <<"End", "Site">>),
                                      Line(sp + 2, <<"{">>),
                                      OffsetLine(sp + 4, EndSiteOffset(offset)),
                                      Line(sp + 2, <<"}">>) >>
                              ELSE <<>>
            IN  head \o nested \o end_site \o << Line(sp, <<"}">>) >>
                \o add_bone_hierarchy_from(bone_offsets, bone_name, indent, i + 1)

add_bone_hierarchy(bone_offsets, bone_name, indent) ==
    add_bone_hierarchy_from(bone_offsets, bone_name, indent, 1)

\* _generate_hierarchy: the lines of the HIERARCHY block.
generate_hierarchy(bone_offsets) ==
    << Line(0, <<"HIERARCHY">>),
       Line(0, <<"ROOT", "Hips">>),
       Line(0, <<"{">>),
       Line(2, <<"OFFSET", Literal00, Literal00, Literal00>>),
       Line(2, <<"CHANNELS", "6", "Xposition", "Yposition", "Zposition",
                 "Zrotation", "Xrotation", "Yrotation">>) >>
    \o add_bone_hierarchy(bone_offsets, "Hips", 1)
    \o << Line(0, <<"}">>) >>

\* The three values a bone's rotation adds to frame_data, in 1/1000000 of a
\* degree: np.degrees of rot_euler[2], rot_euler[0], rot_euler[1].
RotationValues(rot_quat) ==
    LET rot_euler == quaternion_to_euler(rot_quat)
    IN  <<1000000 * rot_euler[3], 1000000 * rot_euler[1], 1000000 * rot_euler[2]>>

\* pos[i] * SCALE_FACTOR in 1/1000000, for a position in quarter-hundredths.
PositionValues_unscaled(pos) ==
    LET f == 1000000 \div 400
    IN  <<f * pos[1], f * pos[2], f * pos[3]>>

PositionValues(pos) ==
    LET f == (1000000 \div 400) * SCALE_FACTOR
    IN  <<f * pos[1], f * pos[2], f * pos[3]>>

\* The values of bone_order[i..] after the root: a bone that is not in
\* bones adds three zeros.
RECURSIVE OtherBoneValues(_, _, _)
OtherBoneValues(order, bones, i) ==
    IF i > Len(order) THEN <<>>
    ELSE (IF order[i] \in DOMAIN bones
          THEN RotationValues(bones[order[i]].rotation)
          ELSE <<0, 0, 0>>)
         \o OtherBoneValues(order, bones, i + 1)

\* frame_data for the bones retarget_to_blender returned: the root's three
\* positions and three rotations, then three rotations per other bone.
frame_values(bones) ==
    (IF "Hips" \in DOMAIN bones
     THEN PositionValues(bones["Hips"].position) \o RotationValues(bones["Hips"].rotation)
     ELSE <<0, 0, 0, 0, 0, 0>>)
    \o OtherBoneValues(bone_order, bones, 2)

\* The landmark list a frame is retargeted from:
\* 'frame.world_landmarks if frame.world_landmarks else frame.landmarks'.
MotionSource(frame) ==
    IF Truthy(frame.world_landmarks) THEN frame.world_landmarks.list ELSE frame.landmarks

\* frame_data of one frame.
frame_data(frame) == frame_values(retarget_to_blender(MotionSource(frame)))

\* ' '.join(f'{val:.6f}' for val in frame_data)
MotionLine(values) == Line(0, [ i \in 1..Len(values) |-> Fixed(values[i], 6) ])

\* f'{1.0 / fps:.6f}' for a positive whole fps: 1000000 / fps rounded to the
\* nearest integer.
FrameTime(fps) ==
    LET q == 1000000 \div fps
        r == 1000000 % fps
    IN  IF 2 * r > fps \/ (2 * r = fps /\ q % 2 = 1) THEN q + 1 ELSE q

\* _generate_motion: the lines of the MOTION block, or the exception it
\* raises (None: it returns); 1.0 / fps raises for fps = 0.
generate_motion(recording) ==
    IF recording.metadata.fps = 0 THEN [raised |-> "ZeroDivisionError", lines |-> <<>>]
    ELSE [raised |-> None,
          lines  |-> << Line(0, <<"MOTION">>),
                        Line(0, <<"Frames:", ToString(recording.metadata.frame_count)>>),
                        Line(0, <<"Frame", "Time:", Fixed(FrameTime(recording.metadata.fps), 6)>>) >>
                     \o [ i \in 1..Len(recording.frames) |->
                            MotionLine(frame_data(recording.frames[i])) ]]

\* hierarchy + '\n' + motion, as the sequence of its lines; an exception of
\* _generate_motion passes through.
join_bvh(hierarchy, motion) ==
    IF motion.raised # None THEN motion
    ELSE [raised |-> None, lines |-> hierarchy \o motion.lines]

\* _generate_bvh
generate_bvh(bone_offsets, recording) ==
    join_bvh(generate_hierarchy(bone_offsets), generate_motion(recording))

\* ------------------------------------------------------------------------
\* State
\* ------------------------------------------------------------------------

\* A RecordingManager and the directory it saves to.
VARIABLES
    current_session_id,     \* self.current_session_id: NoSession or a session id
    current_frames,         \* self.current_frames
    recording_start_time,   \* self.recording_start_time: NoTime or a clock value
    target_fps,             \* self.target_fps
    files,                  \* recordings_dir: the JSON of each session id that has a file
    now,                    \* time.time()
    uuids,                  \* how many uuid4() values have been drawn
    calls,                  \* how many calls have been made
    result,                 \* the last call of a RecordingManager method and what it gave
    stop_returned,          \* the Recording stop_recording returned for each session not deleted since
    deleted_since,          \* the sessions delete_recording was called on after their stop_recording
    replaced                \* the frames of each session start_recording replaced while it was active

recVars == <<current_session_id, current_frames, recording_start_time, target_fps,
             files, now, uuids, calls, result, stop_returned, deleted_since,
             replaced>>

\* Calls of BoneRetargeter.retarget_to_blender.
VARIABLES
    ret_called,     \* whether retarget_to_blender has been called
    ret_input,      \* the landmark list of the last call
    ret_result,     \* what the last call returned
    ret_first       \* the retargeter's first call: its landmark list and what it returned

retVars == <<ret_called, ret_input, ret_result, ret_first>>

\* BVHExporter instances exporting to one output path.
VARIABLES
    bone_offsets,   \* self.bone_offsets of each BVHExporter instance
    exported,       \* per instance, its last export call: the recording and what came of it
    out_file        \* the file at output_path

expVars == <<bone_offsets, exported, out_file>>

\* One smoothing filter of smoother.py and the calls made on it.
VARIABLES
    flt_kind,                   \* which filter was constructed: "ema", "kalman" or "one_euro"
    ema_previous,               \* ExponentialMovingAverage.previous
    kal_states,                 \* KalmanFilter.states
    kal_covariances,            \* KalmanFilter.covariances
    oe_previous_values,         \* OneEuroFilter.previous_values
    oe_previous_derivatives,    \* OneEuroFilter.previous_derivatives
    oe_previous_time,           \* OneEuroFilter.previous_time
    flt_preceding,              \* the frame of the preceding smooth call since construction or reset
    flt_calls,                  \* how many calls have been made
    flt_result,                 \* the last call and what it gave
    ema_alpha,                  \* ExponentialMovingAverage.alpha
    flt_returned,               \* what the preceding smooth call returned, since construction or reset
    fresh,                       \* a second filter, constructed when reset is called on the first
    kal_process_noise,          \* KalmanFilter.process_noise
    kal_measurement_noise       \* KalmanFilter.measurement_noise

fltVars == <<flt_kind, ema_previous, kal_states, kal_covariances, oe_previous_values,
             oe_previous_derivatives, oe_previous_time, flt_preceding, flt_calls, flt_result,
             ema_alpha, flt_returned, fresh,
             kal_process_noise, kal_measurement_noise>>

\* One export request writing to its output path, step by step.
VARIABLES
    io_pc,          \* where export is: "idle", "generated", "open", "returned", "raised" or "failed"
    io_content,     \* bvh_content, as its lines
    io_written,     \* how many lines of bvh_content have reached the file
    io_before,      \* the file at output_path when export was called
    io_file,        \* the file at output_path
    io_exports      \* how many export calls have been made

ioVars == <<io_pc, io_content, io_written, io_before, io_file, io_exports>>

\* Calls of the two rotation functions of retargeting.py.
VARIABLES
    rot_op,         \* the function called last: "none", "vector_to_rotation" or "calculate_bone_rotation"
    rot_from,       \* its first argument (vec_from or start_pos)
    rot_to,         \* its second argument (vec_to or end_pos)
    rot_result      \* the quaternion it returned

rotVars == <<rot_op, rot_from, rot_to, rot_result>>

\* app.py: the module's globals and the /ws/pose connections.
VARIABLES
    app_camera,         \* the global camera: "none", "open" or, after a failed start, "unopened"
    app_pose_detector,  \* whether the global pose_detector is set
    app_smoother,       \* the global smoother: whether it is set, its alpha and its self.previous
    app_connections,    \* manager.active_connections
    app_writer,         \* the connection whose frame wrote the smoother's state, "none" when new
    app_sent,           \* what the last turn of a websocket_pose loop sent to its client
    app_turns           \* how many turns the handlers and loops of app.py have taken

appVars == <<app_camera, app_pose_detector, app_smoother, app_connections, app_writer,
             app_sent, app_turns>>

\* The variables of the other components, which an action leaves alone.
notRec == <<retVars, expVars, fltVars, ioVars, rotVars, appVars>>
notRet == <<recVars, expVars, fltVars, ioVars, rotVars, appVars>>
notExp == <<recVars, retVars, fltVars, ioVars, rotVars, appVars>>
notFlt == <<recVars, retVars, expVars, ioVars, rotVars, appVars>>
notIo == <<recVars, retVars, expVars, fltVars, rotVars, appVars>>
notRot == <<recVars, retVars, expVars, fltVars, ioVars, appVars>>
notApp == <<recVars, retVars, expVars, fltVars, ioVars, rotVars>>
\* What a turn of websocket_pose leaves alone: it calls add_frame.
notAppRec == <<retVars, expVars, fltVars, ioVars, rotVars>>

\* ------------------------------------------------------------------------
\* recording.py: RecordingManager
\* ------------------------------------------------------------------------

\* The model follows the manager for MaxCalls calls of its methods, between
\* which the clock advances up to MaxClock.
MaxCalls == 5
MaxClock == 1

\* current_session_id = None and recording_start_time = None.
NoSession == 0
NoTime == -1


\* What the callers pass: app.py hands add_frame the smoothed landmarks and
\* pose_data.get('world_landmarks', []), and start_recording the request's
\* fps (default 30.0).  A frame input is <<landmarks, world_landmarks>>.
FrameInputs == { <<Pose(1, RequiredLandmarks), NoneList>>,
                 <<Pose(2, 10), Some(Pose(2, RequiredLandmarks))>> }
FpsInputs == { 30, 0 }

RecordingFrame(frame_id, timestamp, landmarks, world_landmarks) ==
    [frame_id |-> frame_id, timestamp |-> timestamp,
     landmarks |-> landmarks, world_landmarks |-> world_landmarks]

\* The metadata's timestamp is the wall clock at stop_recording;
\* landmark_count, always 33, is read by no code modelled here and left out.
RecordingMetadata(session_id, fps, duration, frame_count, timestamp) ==
    [session_id |-> session_id, fps |-> fps, duration |-> duration,
     frame_count |-> frame_count, timestamp |-> timestamp]

Recording(metadata, frames) == [metadata |-> metadata, frames |-> frames]

\* json.dump(recording.dict()): the objects become JSON objects with the
\* same keys, the lists arrays, and a world_landmarks of None becomes null.
JsonNull == [null |-> TRUE]
JsonArray(list) == [null |-> FALSE, array |-> list]

json_dump_noworld(recording) ==
    [metadata |-> recording.metadata,
     frames   |-> [ i \in 1..Len(recording.frames) |->
                        [frame_id  |-> recording.frames[i].frame_id,
                         timestamp |-> recording.frames[i].timestamp,
                         landmarks |-> recording.frames[i].landmarks,
                         world_landmarks |-> JsonNull] ]]

json_dump(recording) ==
    [metadata |-> recording.metadata,
     frames   |-> [ i \in 1..Len(recording.frames) |->
                        [frame_id  |-> recording.frames[i].frame_id,
                         timestamp |-> recording.frames[i].timestamp,
                         landmarks |-> recording.frames[i].landmarks,
                         world_landmarks |->
                            IF recording.frames[i].world_landmarks.is_none THEN JsonNull
                            ELSE JsonArray(recording.frames[i].world_landmarks.list)] ]]

\* Recording(**json.load(f)): the frames are parsed back, null to None.
json_load(data) ==
    Recording(data.metadata,
              [ i \in 1..Len(data.frames) |->
                    RecordingFrame(data.frames[i].frame_id, data.frames[i].timestamp,
                                   data.frames[i].landmarks,
                                   IF data.frames[i].world_landmarks.null THEN NoneList
                                   ELSE Some(data.frames[i].world_landmarks.array)) ])

\* An Optional[Recording]: None, or a recording.
NoRecording == [is_none |-> TRUE]
SomeRecording(recording) == [is_none |-> FALSE, recording |-> recording]

NoResult == [op |-> "none", raised |-> None]

InitRec ==
    /\ current_session_id = NoSession
    /\ current_frames = <<>>
    /\ recording_start_time = NoTime
    /\ target_fps = 30
    /\ files = << >>
    /\ now = 0
    /\ uuids = 0
    /\ calls = 0
    /\ result = NoResult
    /\ stop_returned = << >>
    /\ deleted_since = {}
    /\ replaced = << >>

\* Time passes between two calls.
Tick ==
    /\ now < MaxClock
    /\ now' = now + 1
    /\ UNCHANGED <<current_session_id, current_frames, recording_start_time,
                   target_fps, files, uuids, calls, result, stop_returned, deleted_since,
                   replaced>>
    /\ UNCHANGED notRec

\* 'if self.current_session_id is None' of add_frame and stop_recording
NoActiveSession_never == FALSE

NoActiveSession == current_session_id = NoSession

\* self.current_frames = [] of start_recording
new_session_frames_kept == current_frames

new_session_frames == <<>>

\* start_recording(fps)
start_recording(fps) ==
    /\ calls < MaxCalls
    /\ calls' = calls + 1
    /\ uuids' = uuids + 1
    /\ current_session_id' = uuids + 1
    /\ current_frames' = new_session_frames
    /\ recording_start_time' = now
    /\ target_fps' = fps
    /\ result' = [op |-> "start_recording", raised |-> None, value |-> uuids + 1]
    /\ replaced' = IF NoActiveSession THEN replaced
                   ELSE [ s \in DOMAIN replaced \cup {current_session_id} |->
                            IF s = current_session_id THEN current_frames ELSE replaced[s] ]
    /\ UNCHANGED <<files, now, stop_returned, deleted_since>>
    /\ UNCHANGED notRec

\* The frame_id add_frame gives the new frame.
NextFrameId_off == Len(current_frames) + 1

NextFrameId == Len(current_frames)

\* add_frame(landmarks, world_landmarks)
add_frame(landmarks, world_landmarks) ==
    /\ calls < MaxCalls
    /\ calls' = calls + 1
    /\ UNCHANGED notRec
    /\ UNCHANGED <<stop_returned, deleted_since, replaced>>
    /\ IF NoActiveSession THEN
            /\ result' = [op |-> "add_frame", raised |-> "ValueError"]
            /\ UNCHANGED <<current_session_id, current_frames, recording_start_time,
                           target_fps, files, now, uuids>>
       ELSE
            /\ current_frames' = Append(current_frames,
                                        RecordingFrame(NextFrameId, now - recording_start_time,
                                                       landmarks, world_landmarks))
            /\ result' = [op |-> "add_frame", raised |-> None, value |-> NextFrameId]
            /\ UNCHANGED <<current_session_id, recording_start_time, target_fps,
                           files, now, uuids>>

\* The frames stop_recording puts into the Recording.
StoppedFrames_short == IF current_frames = <<>> THEN <<>> ELSE Tail(current_frames)

StoppedFrames == current_frames

\* stop_recording(), _save_recording included.
stop_recording ==
    /\ calls < MaxCalls
    /\ calls' = calls + 1
    /\ UNCHANGED notRec
    /\ IF NoActiveSession THEN
            /\ result' = [op |-> "stop_recording", raised |-> "ValueError"]
            /\ UNCHANGED <<current_session_id, current_frames, recording_start_time,
                           target_fps, files, now, uuids, stop_returned, deleted_since,
                           replaced>>
       ELSE
            LET duration    == now - recording_start_time
                frame_count == Len(current_frames)
                metadata    == RecordingMetadata(current_session_id, target_fps,
                                                 duration, frame_count, now)
                recording   == Recording(metadata, StoppedFrames)
            IN  /\ files' = [ s \in DOMAIN files \cup {current_session_id} |->
                                IF s = current_session_id THEN json_dump(recording)
                                ELSE files[s] ]
                /\ current_session_id' = NoSession
                /\ current_frames' = <<>>
                /\ recording_start_time' = NoTime
                /\ result' = [op |-> "stop_recording", raised |-> None, value |-> recording]
                /\ stop_returned' = [ s \in DOMAIN stop_returned \cup {current_session_id} |->
                                        IF s = current_session_id THEN recording
                                        ELSE stop_returned[s] ]
                /\ deleted_since' = deleted_since \ {current_session_id}
                /\ UNCHANGED replaced
                /\ UNCHANGED <<target_fps, now, uuids>>

\* The session ids the callers of get_recording and delete_recording pass.
MaxSessions == 2
SessionInputs == 1..MaxSessions

\* 'if not file_path.exists()' of get_recording and delete_recording
Exists(session_id) == session_id \in DOMAIN files

\* get_recording(session_id)
get_recording(session_id) ==
    /\ calls < MaxCalls
    /\ calls' = calls + 1
    /\ result' = [op |-> "get_recording", raised |-> None, session_id |-> session_id,
                  value |-> IF ~Exists(session_id) THEN NoRecording
                            ELSE SomeRecording(json_load(files[session_id]))]
    /\ UNCHANGED <<current_session_id, current_frames, recording_start_time,
                   target_fps, files, now, uuids, stop_returned, deleted_since,
                   replaced>>
    /\ UNCHANGED notRec

\* The lists that recordings.sort(key=timestamp, reverse=True) can leave:
\* the metadata of every file, newest first, metadata of one timestamp in
\* the order glob yielded them, which is any.
Listings ==
    { l \in [ 1..Cardinality(DOMAIN files) -> { files[s].metadata : s \in DOMAIN files } ] :
        /\ \A i, j \in DOMAIN l : i # j => l[i] # l[j]
        /\ \A i, j \in DOMAIN l : i < j => l[i].timestamp >= l[j].timestamp }

\* list_recordings()
list_recordings ==
    /\ calls < MaxCalls
    /\ calls' = calls + 1
    /\ \E listing \in Listings :
            result' = [op |-> "list_recordings", raised |-> None, value |-> listing]
    /\ UNCHANGED <<current_session_id, current_frames, recording_start_time,
                   target_fps, files, now, uuids, stop_returned, deleted_since,
                   replaced>>
    /\ UNCHANGED notRec

\* delete_recording(session_id)
delete_recording(session_id) ==
    /\ calls < MaxCalls
    /\ calls' = calls + 1
    /\ result' = [op |-> "delete_recording", raised |-> None, session_id |-> session_id,
                  value |-> Exists(session_id)]
    /\ files' = IF ~Exists(session_id) THEN files
                ELSE [ s \in DOMAIN files \ {session_id} |-> files[s] ]
    /\ stop_returned' = [ s \in DOMAIN stop_returned \ {session_id} |-> stop_returned[s] ]
    /\ deleted_since' = IF session_id \in DOMAIN stop_returned
                        THEN deleted_since \cup {session_id} ELSE deleted_since
    /\ UNCHANGED replaced
    /\ UNCHANGED <<current_session_id, current_frames, recording_start_time,
                   target_fps, now, uuids>>
    /\ UNCHANGED notRec

NextRec ==
    \/ Tick
    \/ \E fps \in FpsInputs : start_recording(fps)
    \/ \E f \in FrameInputs : add_frame(f[1], f[2])
    \/ stop_recording
    \/ \E session_id \in SessionInputs : get_recording(session_id)
    \/ list_recordings
    \/ \E session_id \in SessionInputs : delete_recording(session_id)

\* ------------------------------------------------------------------------
\* retargeting.py: calls of BoneRetargeter.retarget_to_blender
\* ------------------------------------------------------------------------


\* Landmark lists of every length up to MaxLandmarks, in every pose.
RetargetInputs == { Pose(k, n) : k \in 1..NumPoses, n \in 0..MaxLandmarks }

\* The record kept of the first call.
FirstCall(landmarks, returned) == [called |-> TRUE, input |-> landmarks, result |-> returned]
NoFirstCall == [called |-> FALSE]

InitRet ==
    /\ ret_called = FALSE
    /\ ret_input = <<>>
    /\ ret_result = EmptyMapping
    /\ ret_first = NoFirstCall

\* retarget_to_blender(landmarks) on one BoneRetargeter, which keeps nothing
\* from one call to the next.
Retarget_forgetful(landmarks) ==
    \E returned \in { IF ret_called /\ ret_input # landmarks THEN EmptyMapping
                      ELSE retarget_to_blender(landmarks) } :
        /\ ret_called' = TRUE
        /\ ret_input' = landmarks
        /\ ret_result' = returned
        /\ ret_first' = IF ret_first.called THEN ret_first ELSE FirstCall(landmarks, returned)
        /\ UNCHANGED notRet

Retarget(landmarks) ==
    \E returned \in { retarget_to_blender(landmarks) } :
        /\ ret_called' = TRUE
        /\ ret_input' = landmarks
        /\ ret_result' = returned
        /\ ret_first' = IF ret_first.called THEN ret_first ELSE FirstCall(landmarks, returned)
        /\ UNCHANGED notRet

NextRet == \E landmarks \in RetargetInputs : Retarget(landmarks)

\* ------------------------------------------------------------------------
\* retargeting.py: calls of vector_to_rotation and calculate_bone_rotation
\* ------------------------------------------------------------------------

\* The vectors handed to the two functions: the zero vector, the six unit
\* vectors along the axes and the twenty skew vectors with coordinates
\* -1, 0 and 1.
RotationCoords == {-1, 0, 1}

RotationVectors ==
    { <<a, b, c>> : a \in RotationCoords, b \in RotationCoords, c \in RotationCoords }

\* n is the square of a whole number.
IsSquare(n) == SqrtSearch(n, 0, 46340) * SqrtSearch(n, 0, 46340) = n

\* The pairs whose quaternion the exact components can hold: the product
\* of the two lengths is a whole number (equal lengths, as for v and v or v
\* and -v, among them), or a vector is zero.
RotationPairs ==
    { p \in RotationVectors \X RotationVectors : IsSquare(Dot(p[1], p[1]) * Dot(p[2], p[2])) }

\* The start and end positions whose bone has a whole length.
BonePairs ==
    { p \in RotationVectors \X RotationVectors :
        IsSquare(Dot(VSub(p[2], p[1]), VSub(p[2], p[1]))) }

InitRot ==
    /\ rot_op = "none"
    /\ rot_from = <<0, 0, 0>>
    /\ rot_to = <<0, 0, 0>>
    /\ rot_result = IdentityQuat

VectorToRotation(vec_from, vec_to) ==
    /\ rot_op' = "vector_to_rotation"
    /\ rot_from' = vec_from
    /\ rot_to' = vec_to
    /\ rot_result' = vector_to_rotation(vec_from, vec_to)
    /\ UNCHANGED notRot

CalculateBoneRotation(start_pos, end_pos) ==
    /\ rot_op' = "calculate_bone_rotation"
    /\ rot_from' = start_pos
    /\ rot_to' = end_pos
    /\ rot_result' = calculate_bone_rotation(start_pos, end_pos)
    /\ UNCHANGED notRot

NextRot ==
    \/ \E p \in RotationPairs : VectorToRotation(p[1], p[2])
    \/ \E p \in BonePairs : CalculateBoneRotation(p[1], p[2])

\* ------------------------------------------------------------------------
\* exporters/bvh_exporter.py: BVHExporter instances and export
\* ------------------------------------------------------------------------

\* Two BVHExporter instances, as two export requests construct them.
ExporterIds == {"first", "second"}


\* A recording with the given fps and frames (<<landmarks, world_landmarks>>
\* pairs), numbered and counted as RecordingManager does.
MkRecording(fps, inputs) ==
    Recording(RecordingMetadata(1, fps, Len(inputs), Len(inputs), 0),
              [ i \in 1..Len(inputs) |-> RecordingFrame(i - 1, i - 1, inputs[i][1], inputs[i][2]) ])

FrameT1 == <<Pose(1, RequiredLandmarks), NoneList>>
FrameT2 == <<Pose(2, RequiredLandmarks), Some(<<>>)>>
FrameScreen1World2 == <<Pose(1, RequiredLandmarks), Some(Pose(2, RequiredLandmarks))>>
FramePoint == <<Pose(3, RequiredLandmarks), NoneList>>
FrameShort30 == <<Pose(1, 30), NoneList>>
FrameShort20 == <<Pose(2, 20), NoneList>>
FrameLong == <<Pose(2, RequiredLandmarks + 1), NoneList>>

\* Pose 2 with short feet: the left ankle 0.01 below the knee, so that the
\* offset of LeftFoot is (0, -1.0, 0), of magnitude 1.0 exactly, and the
\* right ankle 0.02 behind the knee, so that RightFoot's is (0, 0, -2.0).
UnitFootPose ==
    [ Pose(2, RequiredLandmarks) EXCEPT
        ![LEFT_ANKLE + 1]  = [x |-> -12, y |-> -1, z |-> 40],
        ![RIGHT_ANKLE + 1] = [x |-> 52, y |-> 0, z |-> -2] ]
FrameUnitFoot == <<UnitFootPose, NoneList>>

\* The recordings handed to export: none to three frames, with and without
\* world landmarks, with zero-length and unit-length leaf bones, with frames
\* too short to retarget (30 landmarks) or to calibrate from (20), and with
\* fps = 0.
ExportRecordings ==
    { MkRecording(30, <<>>),
      MkRecording(30, <<FrameT1>>),
      MkRecording(30, <<FrameT1, FrameT1>>),
      MkRecording(30, <<FrameT1, FrameT2>>),
      MkRecording(24, <<FrameT1, FrameShort20, FramePoint>>),
      MkRecording(30, <<FrameT2, FrameT1>>),
      MkRecording(30, <<FrameScreen1World2, FrameT1>>),
      MkRecording(30, <<FrameScreen1World2, FrameLong>>),
      MkRecording(30, <<FramePoint>>),
      MkRecording(30, <<FrameUnitFoot>>),
      MkRecording(30, <<FrameShort30, FrameT1>>),
      MkRecording(30, <<FrameShort20, FrameT1>>),
      MkRecording(0, <<FrameT1>>) }

NotExported == [called |-> FALSE]

\* What an instance exported just before its present export: nothing, a
\* recording without frames, or one with frames.
Before(last) ==
    IF ~last.called THEN "nothing"
    ELSE IF last.recording.frames = <<>> THEN "empty"
    ELSE "frames"
AbsentFile == [exists |-> FALSE, lines |-> <<>>]

InitExp ==
    /\ bone_offsets = [ e \in ExporterIds |-> EmptyMapping ]
    /\ exported = [ e \in ExporterIds |-> NotExported ]
    /\ out_file = AbsentFile

\* What export does once _calculate_bone_offsets has run: an IndexError of
\* it ends the call, otherwise _generate_bvh runs.
export_text(calc, recording) ==
    IF calc.raised THEN [raised |-> "IndexError", lines |-> <<>>]
    ELSE generate_bvh(calc.bone_offsets, recording)

\* The record kept of a call of export on one instance.
ExportCall(recording, bvh, before) ==
    [called |-> TRUE, recording |-> recording, raised |-> bvh.raised, lines |-> bvh.lines,
     before |-> before]

\* export(recording, output_path) on instance e, when the file system does
\* not fail: _calculate_bone_offsets, _generate_bvh, then open and write.
\* An exception of the first two leaves the file alone.
Export(e, recording) ==
    \E calc \in { calculate_bone_offsets(bone_offsets[e], recording) } :
    \E bvh \in { export_text(calc, recording) } :
        /\ bone_offsets' = [bone_offsets EXCEPT ![e] = calc.bone_offsets]
        /\ exported' = [exported EXCEPT ![e] = ExportCall(recording, bvh, Before(exported[e]))]
        /\ out_file' = IF bvh.raised # None THEN out_file
                       ELSE [exists |-> TRUE, lines |-> bvh.lines]
        /\ UNCHANGED notExp

NextExp == \E e \in ExporterIds, recording \in ExportRecordings : Export(e, recording)

\* ------------------------------------------------------------------------
\* smoother.py: the three filters
\* ------------------------------------------------------------------------

\* A filter's numbers are kept in thousandths: coordinates, visibility,
\* smoothing factors, cutoff frequencies, derivatives (per second) and, in
\* milliseconds, timestamps.  Each product of two of them is brought back to
\* thousandths by a division that rounds down, where the floats round each
\* operation to their own precision.  A Kalman covariance is a multiple c * eye(3) of the
\* identity, every step keeps it one, and it is kept as c in 1/10000.

\* Frames hold up to MaxFilterLen landmarks; a filter gets MaxSmoothCalls calls.
MaxFilterLen == 2
MaxSmoothCalls == 4

\* The n landmarks of frame k.
FilterFrame(k, n) ==
    [ i \in 1..n |-> [x |-> 100 * k * i, y |-> 500 - 30 * k - 10 * i, z |-> -(20 * k * i) - 1,
                      visibility |-> 1000 - 100 * k] ]

FilterInputs == { FilterFrame(k, n) : k \in {1, 2}, n \in 0..MaxFilterLen }

\* timestamp arguments of OneEuroFilter.smooth, in milliseconds.
TimestampInputs == {0, 50}

MinOf(a, b) == IF a <= b THEN a ELSE b

\* The alpha arguments of ExponentialMovingAverage(alpha): the default 0.3,
\* 0.5 and 1.
AlphaInputs == {300, 500, 1000}

\* alpha * x + (1 - alpha) * prev_x: two products, each rounded, and their sum.
exponential_smoothing_swapped(alpha, x, prev_x) ==
    (alpha * prev_x) \div 1000 + ((1000 - alpha) * x) \div 1000

exponential_smoothing(alpha, x, prev_x) ==
    (alpha * x) \div 1000 + ((1000 - alpha) * prev_x) \div 1000

\* What a smooth call gives: the list it returns, or the exception it raises.
Returned(output) == [raised |-> None, output |-> output]
RaisedBy(exc) == [raised |-> exc, output |-> <<>>]

\* -- ExponentialMovingAverage (alpha = 0.3 by default)
ALPHA == 300

\* The loop over zip(landmarks, self.previous), which stops with the
\* shorter of the two lists.
ema_zip(alpha, landmarks, previous) ==
    [ i \in 1..MinOf(Len(landmarks), Len(previous)) |->
        [x |-> exponential_smoothing(alpha, landmarks[i].x, previous[i].x),
         y |-> exponential_smoothing(alpha, landmarks[i].y, previous[i].y),
         z |-> exponential_smoothing(alpha, landmarks[i].z, previous[i].z),
         visibility |-> landmarks[i].visibility] ]

\* ExponentialMovingAverage.smooth: the new self.previous and the outcome.
ema_smooth_raw(alpha, previous, landmarks) ==
    IF previous.is_none
    THEN [previous |-> Some(landmarks), outcome |-> Returned(landmarks)]
    ELSE [previous |-> Some(landmarks),
          outcome  |-> Returned(ema_zip(alpha, landmarks, previous.list))]

ema_smooth(alpha, previous, landmarks) ==
    IF previous.is_none
    THEN [previous |-> Some(landmarks), outcome |-> Returned(landmarks)]
    ELSE [previous |-> Some(ema_zip(alpha, landmarks, previous.list)),
          outcome  |-> Returned(ema_zip(alpha, landmarks, previous.list))]

\* -- KalmanFilter (process_noise = 0.01, measurement_noise = 0.1)
PROCESS_NOISE == 100
MEASUREMENT_NOISE == 1000
\* np.eye(3)
IDENTITY_COV == 10000

\* The noise parameters are kept in tenths of the covariances' step.  The
\* sum of a covariance and a noise term is rounded to the covariances' step,
\* where the floats round it to the precision of the larger operand: a
\* positive noise below half a step adds nothing, as measurement_noise =
\* 1e-20 adds nothing to a predicted covariance of 1.01 in double precision.
NoiseTerm(noise) == (noise + 5) \div 10

\* predicted_cov = self.covariances[i] + np.eye(3) * self.process_noise
predicted_cov(cov) == cov + NoiseTerm(kal_process_noise)

\* innovation_cov = predicted_cov + np.eye(3) * self.measurement_noise
innovation_cov(cov) == predicted_cov(cov) + NoiseTerm(kal_measurement_noise)

\* kalman_gain = predicted_cov @ inv(innovation_cov), in thousandths.
kalman_gain(cov) == (1000 * predicted_cov(cov)) \div innovation_cov(cov)

\* updated_cov = (eye(3) - kalman_gain) @ predicted_cov
updated_cov(cov) == ((1000 - kalman_gain(cov)) * predicted_cov(cov)) \div 1000

\* updated_state = predicted_state + kalman_gain @ innovation
updated_state(state, cov, lm) ==
    << state[1] + (kalman_gain(cov) * (lm.x - state[1])) \div 1000,
       state[2] + (kalman_gain(cov) * (lm.y - state[2])) \div 1000,
       state[3] + (kalman_gain(cov) * (lm.z - state[3])) \div 1000 >>

\* The loop of KalmanFilter.smooth over n landmarks: the states and the
\* covariances after it.
kalman_states(states, covariances, landmarks, n) ==
    [ i \in 1..Len(states) |->
        IF i <= n THEN updated_state(states[i], covariances[i], landmarks[i]) ELSE states[i] ]

kalman_covariances(covariances, n) ==
    [ i \in 1..Len(covariances) |-> IF i <= n THEN updated_cov(covariances[i]) ELSE covariances[i] ]

kalman_smoothed(new_states, landmarks) ==
    [ i \in 1..Len(landmarks) |->
        [x |-> new_states[i][1], y |-> new_states[i][2], z |-> new_states[i][3],
         visibility |-> landmarks[i].visibility] ]

\* KalmanFilter.smooth: self.states[i] raises IndexError at the first
\* landmark the filter holds no state for, after the states before it have
\* been updated.
kalman_smooth_noisy(states, covariances, landmarks) ==
    IF states.is_none THEN
        [states      |-> Some([ i \in 1..Len(landmarks) |->
                                <<landmarks[i].x, landmarks[i].y, landmarks[i].z>> ]),
         covariances |-> Some([ i \in 1..Len(landmarks) |-> IDENTITY_COV + PROCESS_NOISE ]),
         outcome     |-> Returned(landmarks)]
    ELSE
        [states      |-> Some(kalman_states(states.list, covariances.list, landmarks,
                                            MinOf(Len(landmarks), Len(states.list)))),
         covariances |-> Some(kalman_covariances(covariances.list,
                                                 MinOf(Len(landmarks), Len(states.list)))),
         outcome     |-> IF Len(landmarks) > Len(states.list) THEN RaisedBy("IndexError")
                         ELSE Returned(kalman_smoothed(
                                  kalman_states(states.list, covariances.list, landmarks,
                                                Len(landmarks)),
                                  landmarks))]

kalman_smooth(states, covariances, landmarks) ==
    IF states.is_none THEN
        [states      |-> Some([ i \in 1..Len(landmarks) |->
                                <<landmarks[i].x, landmarks[i].y, landmarks[i].z>> ]),
         covariances |-> Some([ i \in 1..Len(landmarks) |-> IDENTITY_COV ]),
         outcome     |-> Returned(landmarks)]
    ELSE
        [states      |-> Some(kalman_states(states.list, covariances.list, landmarks,
                                            MinOf(Len(landmarks), Len(states.list)))),
         covariances |-> Some(kalman_covariances(covariances.list,
                                                 MinOf(Len(landmarks), Len(states.list)))),
         outcome     |-> IF Len(landmarks) > Len(states.list) THEN RaisedBy("IndexError")
                         ELSE Returned(kalman_smoothed(
                                  kalman_states(states.list, covariances.list, landmarks,
                                                Len(landmarks)),
                                  landmarks))]

\* -- OneEuroFilter (min_cutoff = 1.0, beta = 0.007, d_cutoff = 1.0)
MIN_CUTOFF == 1000
BETA == 7
D_CUTOFF == 1000
\* t_e = 0.016 when the timestamp has not advanced
FALLBACK_INTERVAL == 16
\* 2 * np.pi
TWO_PI == 6283

\* previous_time = None, or a timestamp.
NoTimestamp == [is_none |-> TRUE, value |-> 0]
SomeTimestamp(t) == [is_none |-> FALSE, value |-> t]

\* _smoothing_factor: r / (r + 1) for r = 2 * pi * cutoff * t_e
smoothing_factor(t_e, cutoff) ==
    (1000 * ((TWO_PI * cutoff * t_e) \div 1000000))
        \div (((TWO_PI * cutoff * t_e) \div 1000000) + 1000)

\* t_e of a call
interval_abs(timestamp, previous_time) ==
    IF timestamp - previous_time = 0 THEN FALLBACK_INTERVAL ELSE Abs(timestamp - previous_time)

interval(timestamp, previous_time) ==
    IF timestamp - previous_time <= 0 THEN FALLBACK_INTERVAL ELSE timestamp - previous_time

\* deriv_hat of one coordinate
deriv_hat(x, prev_x, prev_deriv, t_e) ==
    exponential_smoothing(smoothing_factor(t_e, D_CUTOFF), (1000 * (x - prev_x)) \div t_e, prev_deriv)

\* The smoothed value of one coordinate, given its deriv_hat.
one_euro_value(x, prev_x, dhat, t_e) ==
    exponential_smoothing(smoothing_factor(t_e, MIN_CUTOFF + (BETA * Abs(dhat)) \div 1000),
                          x, prev_x)

\* previous_derivatives after the loop has handled n landmarks.
one_euro_derivatives(values, derivatives, landmarks, t_e, n) ==
    [ i \in 1..Len(derivatives) |->
        IF i <= n
        THEN [x |-> deriv_hat(landmarks[i].x, values[i].x, derivatives[i].x, t_e),
              y |-> deriv_hat(landmarks[i].y, values[i].y, derivatives[i].y, t_e),
              z |-> deriv_hat(landmarks[i].z, values[i].z, derivatives[i].z, t_e)]
        ELSE derivatives[i] ]

one_euro_smoothed(values, new_derivatives, landmarks, t_e) ==
    [ i \in 1..Len(landmarks) |->
        [x |-> one_euro_value(landmarks[i].x, values[i].x, new_derivatives[i].x, t_e),
         y |-> one_euro_value(landmarks[i].y, values[i].y, new_derivatives[i].y, t_e),
         z |-> one_euro_value(landmarks[i].z, values[i].z, new_derivatives[i].z, t_e),
         visibility |-> landmarks[i].visibility] ]

\* The calls after the first: self.previous_values[i] raises IndexError at
\* the first landmark the filter holds no value for; the derivatives of the
\* landmarks before it have been overwritten, the values and the time not.
one_euro_update(values, derivatives, previous_time, landmarks, timestamp, t_e) ==
    IF Len(landmarks) > Len(values) THEN
        [previous_values      |-> Some(values),
         previous_derivatives |-> Some(one_euro_derivatives(values, derivatives, landmarks,
                                                            t_e, Len(values))),
         previous_time        |-> previous_time,
         outcome              |-> RaisedBy("IndexError")]
    ELSE
        [previous_values      |-> Some(one_euro_smoothed(values,
                                        one_euro_derivatives(values, derivatives, landmarks,
                                                             t_e, Len(landmarks)),
                                        landmarks, t_e)),
         previous_derivatives |-> Some(one_euro_derivatives(values, derivatives, landmarks,
                                                            t_e, Len(landmarks))),
         previous_time        |-> SomeTimestamp(timestamp),
         outcome              |-> Returned(one_euro_smoothed(values,
                                        one_euro_derivatives(values, derivatives, landmarks,
                                                             t_e, Len(landmarks)),
                                        landmarks, t_e))]

\* OneEuroFilter.smooth
one_euro_smooth(previous_values, previous_derivatives, previous_time, landmarks, timestamp) ==
    IF previous_values.is_none THEN
        [previous_values      |-> Some(landmarks),
         previous_derivatives |-> Some([ i \in 1..Len(landmarks) |-> [x |-> 0, y |-> 0, z |-> 0] ]),
         previous_time        |-> SomeTimestamp(timestamp),
         outcome              |-> Returned(landmarks)]
    ELSE one_euro_update(previous_values.list, previous_derivatives.list, previous_time,
                         landmarks, timestamp, interval(timestamp, previous_time.value))

\* -- One filter and the calls made on it

\* The record kept of a call.
SmoothCall(landmarks, timestamp, outcome) ==
    [op |-> "smooth", input |-> landmarks, timestamp |-> timestamp, preceding |-> flt_preceding,
     returned |-> flt_returned, raised |-> outcome.raised, output |-> outcome.output]
ResetCall ==
    [op |-> "reset", input |-> <<>>, timestamp |-> NoTimestamp, preceding |-> flt_preceding,
     returned |-> flt_returned, raised |-> None, output |-> <<>>]
NoCall ==
    [op |-> "none", input |-> <<>>, timestamp |-> NoTimestamp, preceding |-> NoneList,
     returned |-> NoneList, raised |-> None, output |-> <<>>]

\* What a smooth call leaves for the next one to be compared with.
ReturnedBy(outcome) == IF outcome.raised = None THEN Some(outcome.output) ELSE NoneList

\* The second filter: not constructed yet, and as its constructor leaves it;
\* held tells whether the first filter held state when reset was called.
NotBuilt ==
    [built |-> FALSE, held |-> FALSE, previous |-> NoneList, states |-> NoneList, covariances |-> NoneList,
     previous_values |-> NoneList, previous_derivatives |-> NoneList,
     previous_time |-> NoTimestamp, outcome |-> Returned(<<>>)]
Constructed(held) == [NotBuilt EXCEPT !.built = TRUE, !.held = held]

\* The constructors: one filter of some kind, holding no state.
InitFltWith(kind, alpha, process_noise, measurement_noise) ==
    /\ flt_kind = kind
    /\ ema_alpha = alpha
    /\ kal_process_noise = process_noise
    /\ kal_measurement_noise = measurement_noise
    /\ ema_previous = NoneList
    /\ kal_states = NoneList
    /\ kal_covariances = NoneList
    /\ oe_previous_values = NoneList
    /\ oe_previous_derivatives = NoneList
    /\ oe_previous_time = NoTimestamp
    /\ flt_preceding = NoneList
    /\ flt_returned = NoneList
    /\ flt_calls = 0
    /\ flt_result = NoCall
    /\ fresh = NotBuilt

\* A filter with the default noise parameters.
InitFltAs(kind, alpha) ==
    InitFltWith(kind, alpha, 10 * PROCESS_NOISE, 10 * MEASUREMENT_NOISE)

\* The (process_noise, measurement_noise) arguments of KalmanFilter, all
\* positive: the defaults 0.01 and 0.1, both 1.0, and 0.01 with a
\* measurement noise below the precision of the sums it enters.
NoiseInputs ==
    { <<10 * PROCESS_NOISE, 10 * MEASUREMENT_NOISE>>,
      <<10 * IDENTITY_COV, 10 * IDENTITY_COV>>,
      <<10 * PROCESS_NOISE, 1>> }

InitFlt ==
    \/ \E alpha \in AlphaInputs : InitFltAs("ema", alpha)
    \/ \E noise \in NoiseInputs : InitFltWith("kalman", ALPHA, noise[1], noise[2])
    \/ InitFltAs("one_euro", ALPHA)

\* What every call on the filter does to the bookkeeping.
Called(preceding) ==
    /\ flt_calls < MaxSmoothCalls
    /\ flt_calls' = flt_calls + 1
    /\ flt_preceding' = preceding
    /\ UNCHANGED <<flt_kind, ema_alpha, kal_process_noise, kal_measurement_noise>>
    /\ UNCHANGED notFlt

\* The same smooth call on the second filter, once it is constructed.
FreshEma(landmarks) ==
    IF ~fresh.built THEN fresh
    ELSE [fresh EXCEPT
            !.previous = ema_smooth(ema_alpha, fresh.previous, landmarks).previous,
            !.outcome  = ema_smooth(ema_alpha, fresh.previous, landmarks).outcome]

FreshKalman(landmarks) ==
    IF ~fresh.built THEN fresh
    ELSE [fresh EXCEPT
            !.states      = kalman_smooth(fresh.states, fresh.covariances, landmarks).states,
            !.covariances = kalman_smooth(fresh.states, fresh.covariances, landmarks).covariances,
            !.outcome     = kalman_smooth(fresh.states, fresh.covariances, landmarks).outcome]

FreshOneEuro(landmarks, timestamp) ==
    IF ~fresh.built THEN fresh
    ELSE [fresh EXCEPT
            !.previous_values =
                one_euro_smooth(fresh.previous_values, fresh.previous_derivatives,
                                fresh.previous_time, landmarks, timestamp).previous_values,
            !.previous_derivatives =
                one_euro_smooth(fresh.previous_values, fresh.previous_derivatives,
                                fresh.previous_time, landmarks, timestamp).previous_derivatives,
            !.previous_time =
                one_euro_smooth(fresh.previous_values, fresh.previous_derivatives,
                                fresh.previous_time, landmarks, timestamp).previous_time,
            !.outcome =
                one_euro_smooth(fresh.previous_values, fresh.previous_derivatives,
                                fresh.previous_time, landmarks, timestamp).outcome]

EmaSmooth(landmarks) ==
    /\ flt_kind = "ema"
    /\ Called(Some(landmarks))
    /\ \E r \in { ema_smooth(ema_alpha, ema_previous, landmarks) } :
            /\ ema_previous' = r.previous
            /\ flt_result' = SmoothCall(landmarks, NoTimestamp, r.outcome)
            /\ flt_returned' = ReturnedBy(r.outcome)
    /\ fresh' = FreshEma(landmarks)
    /\ UNCHANGED <<kal_states, kal_covariances, oe_previous_values,
                   oe_previous_derivatives, oe_previous_time>>

EmaReset_keep ==
    /\ flt_kind = "ema"
    /\ Called(NoneList)
    /\ ema_previous' = ema_previous
    /\ flt_result' = ResetCall
    /\ flt_returned' = NoneList
    /\ fresh' = Constructed(~ema_previous.is_none)
    /\ UNCHANGED <<kal_states, kal_covariances, oe_previous_values,
                   oe_previous_derivatives, oe_previous_time>>

EmaReset ==
    /\ flt_kind = "ema"
    /\ Called(NoneList)
    /\ ema_previous' = NoneList
    /\ flt_result' = ResetCall
    /\ flt_returned' = NoneList
    /\ fresh' = Constructed(~ema_previous.is_none)
    /\ UNCHANGED <<kal_states, kal_covariances, oe_previous_values,
                   oe_previous_derivatives, oe_previous_time>>

KalmanSmooth(landmarks) ==
    /\ flt_kind = "kalman"
    /\ Called(Some(landmarks))
    /\ \E r \in { kalman_smooth(kal_states, kal_covariances, landmarks) } :
            /\ kal_states' = r.states
            /\ kal_covariances' = r.covariances
            /\ flt_result' = SmoothCall(landmarks, NoTimestamp, r.outcome)
            /\ flt_returned' = ReturnedBy(r.outcome)
    /\ fresh' = FreshKalman(landmarks)
    /\ UNCHANGED <<ema_previous, oe_previous_values, oe_previous_derivatives, oe_previous_time>>

KalmanReset ==
    /\ flt_kind = "kalman"
    /\ Called(NoneList)
    /\ kal_states' = NoneList
    /\ kal_covariances' = NoneList
    /\ flt_result' = ResetCall
    /\ flt_returned' = NoneList
    /\ fresh' = Constructed(~kal_states.is_none)
    /\ UNCHANGED <<ema_previous, oe_previous_values, oe_previous_derivatives, oe_previous_time>>

OneEuroSmooth(landmarks, timestamp) ==
    /\ flt_kind = "one_euro"
    /\ Called(Some(landmarks))
    /\ \E r \in { one_euro_smooth(oe_previous_values, oe_previous_derivatives,
                                   oe_previous_time, landmarks, timestamp) } :
            /\ oe_previous_values' = r.previous_values
            /\ oe_previous_derivatives' = r.previous_derivatives
            /\ oe_previous_time' = r.previous_time
            /\ flt_result' = SmoothCall(landmarks, SomeTimestamp(timestamp), r.outcome)
            /\ flt_returned' = ReturnedBy(r.outcome)
    /\ fresh' = FreshOneEuro(landmarks, timestamp)
    /\ UNCHANGED <<ema_previous, kal_states, kal_covariances>>

OneEuroReset ==
    /\ flt_kind = "one_euro"
    /\ Called(NoneList)
    /\ oe_previous_values' = NoneList
    /\ oe_previous_derivatives' = NoneList
    /\ oe_previous_time' = NoTimestamp
    /\ flt_result' = ResetCall
    /\ flt_returned' = NoneList
    /\ fresh' = Constructed(~oe_previous_values.is_none)
    /\ UNCHANGED <<ema_previous, kal_states, kal_covariances>>

NextFlt ==
    \/ \E landmarks \in FilterInputs : EmaSmooth(landmarks)
    \/ EmaReset
    \/ \E landmarks \in FilterInputs : KalmanSmooth(landmarks)
    \/ KalmanReset
    \/ \E landmarks \in FilterInputs, timestamp \in TimestampInputs :
            OneEuroSmooth(landmarks, timestamp)
    \/ OneEuroReset

\* ------------------------------------------------------------------------
\* exporters/bvh_exporter.py: export, step by step
\* ------------------------------------------------------------------------

\* The model follows MaxIoExports export requests to one output path; the
\* text reaches the file ChunkLines lines at a time.
MaxIoExports == 2
ChunkLines == 20

IoRecordings ==
    { MkRecording(30, <<>>),
      MkRecording(30, <<FrameT1>>),
      MkRecording(30, <<FrameShort20, FrameT1>>) }

InitIo ==
    /\ io_pc = "idle"
    /\ io_content = <<>>
    /\ io_written = 0
    /\ io_before = AbsentFile
    /\ io_file = AbsentFile
    /\ io_exports = 0

\* export is called on a new BVHExporter: _calculate_bone_offsets and
\* _generate_bvh run, and may raise, before the file is touched.
ExportBegin(recording) ==
    /\ io_pc \in {"idle", "returned", "raised", "failed"}
    /\ io_exports < MaxIoExports
    /\ io_exports' = io_exports + 1
    /\ io_before' = io_file
    /\ io_written' = 0
    /\ \E bvh \in { export_text(calculate_bone_offsets(EmptyMapping, recording), recording) } :
            /\ io_pc' = IF bvh.raised # None THEN "raised" ELSE "generated"
            /\ io_content' = bvh.lines
    /\ UNCHANGED io_file
    /\ UNCHANGED notIo

\* open(output_path, 'w') creates the file or truncates it.
OpenFile ==
    /\ io_pc = "generated"
    /\ io_pc' = "open"
    /\ io_file' = [exists |-> TRUE, lines |-> <<>>]
    /\ UNCHANGED <<io_content, io_written, io_before, io_exports>>
    /\ UNCHANGED notIo

\* open raises (no such directory, no permission): the file stays as it was.
OpenFails ==
    /\ io_pc = "generated"
    /\ io_pc' = "failed"
    /\ UNCHANGED <<io_content, io_written, io_before, io_file, io_exports>>
    /\ UNCHANGED notIo

\* f.write(bvh_content): the next lines reach the file.
WriteChunk ==
    /\ io_pc = "open"
    /\ io_written < Len(io_content)
    /\ io_written' = MinOf(io_written + ChunkLines, Len(io_content))
    /\ io_file' = [exists |-> TRUE, lines |-> SubSeq(io_content, 1, io_written')]
    /\ UNCHANGED <<io_pc, io_content, io_before, io_exports>>
    /\ UNCHANGED notIo

\* The write raises (disk full) or the request is cancelled: export ends
\* with an exception and what has reached the file stays there.
WriteFails ==
    /\ io_pc = "open"
    /\ io_pc' = "failed"
    /\ UNCHANGED <<io_content, io_written, io_before, io_file, io_exports>>
    /\ UNCHANGED notIo

\* The with block closes the file and export returns.
CloseFile ==
    /\ io_pc = "open"
    /\ io_written = Len(io_content)
    /\ io_pc' = "returned"
    /\ UNCHANGED <<io_content, io_written, io_before, io_file, io_exports>>
    /\ UNCHANGED notIo

NextIo ==
    \/ \E recording \in IoRecordings : ExportBegin(recording)
    \/ OpenFile
    \/ OpenFails
    \/ WriteChunk
    \/ WriteFails
    \/ CloseFile

\* ------------------------------------------------------------------------
\* app.py: the camera, the global smoother and the /ws/pose connections
\* ------------------------------------------------------------------------

\* The camera and connection handlers and the loops of the connections
\* take MaxTurns turns in all.  The handlers are coroutines of one event
\* loop: a turn runs from one await to the next without another handler in
\* between.
MaxTurns == 5

\* The clients connected to /ws/pose.
Connections == {"a", "b"}

\* What a turn gets from camera.read() and pose_detector.detect(frame): no
\* pose, or the landmarks of one.
NoPose == [detected |-> FALSE, landmarks |-> <<>>]
Detected(landmarks) == [detected |-> TRUE, landmarks |-> landmarks]
DetectInputs == { NoPose, Detected(FilterFrame(1, 1)), Detected(FilterFrame(2, 1)) }

\* smoother = None, and ExponentialMovingAverage(alpha=request.smoothing_alpha)
NoSmoother == [set |-> FALSE, alpha |-> 0, previous |-> NoneList]
NewSmoother(alpha) == [set |-> TRUE, alpha |-> alpha, previous |-> NoneList]

NothingSent == [type |-> "none"]

InitApp ==
    /\ app_camera = "none"
    /\ app_pose_detector = FALSE
    /\ app_smoother = NoSmoother
    /\ app_connections = {}
    /\ app_writer = "none"
    /\ app_sent = NothingSent
    /\ app_turns = 0

\* POST /api/camera/start: when the camera does not open the handler raises
\* after it has assigned the global camera.
StartCamera(opened, alpha) ==
    /\ app_turns < MaxTurns
    /\ app_turns' = app_turns + 1
    /\ app_camera' = IF opened THEN "open" ELSE "unopened"
    /\ app_pose_detector' = (opened \/ app_pose_detector)
    /\ app_smoother' = IF opened THEN NewSmoother(alpha) ELSE app_smoother
    /\ app_writer' = IF opened THEN "none" ELSE app_writer
    /\ UNCHANGED <<app_connections, app_sent>>
    /\ UNCHANGED notApp

\* POST /api/camera/stop
StopCamera ==
    /\ app_turns < MaxTurns
    /\ app_turns' = app_turns + 1
    /\ app_camera' = "none"
    /\ app_pose_detector' = FALSE
    /\ app_smoother' = NoSmoother
    /\ app_writer' = "none"
    /\ UNCHANGED <<app_connections, app_sent>>
    /\ UNCHANGED notApp

\* manager.connect(websocket), at the start of websocket_pose
Connect(c) ==
    /\ app_turns < MaxTurns
    /\ app_turns' = app_turns + 1
    /\ c \notin app_connections
    /\ app_connections' = app_connections \cup {c}
    /\ UNCHANGED <<app_camera, app_pose_detector, app_smoother, app_writer, app_sent>>
    /\ UNCHANGED notApp

\* WebSocketDisconnect: manager.disconnect(websocket)
Disconnect(c) ==
    /\ app_turns < MaxTurns
    /\ app_turns' = app_turns + 1
    /\ c \in app_connections
    /\ app_connections' = app_connections \ {c}
    /\ UNCHANGED <<app_camera, app_pose_detector, app_smoother, app_writer, app_sent>>
    /\ UNCHANGED notApp

\* The smoother a turn of connection c smooths with: the global one.
SmootherOf(c) == app_smoother

\* 'if smoother: landmarks = smoother.smooth(landmarks)': the landmarks
\* that go on, and the smoother's state.
apply_smoothing(sm, landmarks) ==
    IF ~sm.set THEN [landmarks |-> landmarks, previous |-> sm.previous]
    ELSE LET r == ema_smooth(sm.alpha, sm.previous, landmarks)
         IN  [landmarks |-> r.outcome.output, previous |-> r.previous]

\* The pose_update message of a turn, with the connection whose frame had
\* written the smoother state that the turn read.
PoseUpdate(c, landmarks, was_smoothed, state_of) ==
    [type |-> "pose_update", connection |-> c, landmarks |-> landmarks,
     smoothed |-> was_smoothed, state_of |-> state_of]

\* One turn of the loop of websocket_pose on connection c: the frame is
\* read, the pose detected, smoothed, added to the recording that is under
\* way and sent.
PoseTurn(c, pose) ==
    /\ c \in app_connections
    /\ app_turns < MaxTurns
    /\ app_turns' = app_turns + 1
    /\ UNCHANGED <<app_camera, app_pose_detector, app_connections>>
    /\ UNCHANGED notAppRec
    /\ IF app_camera = "none" \/ ~app_pose_detector THEN
            /\ UNCHANGED <<app_smoother, app_writer, app_sent>>
            /\ UNCHANGED recVars
       ELSE IF app_camera = "unopened" THEN
            /\ app_sent' = [type |-> "error", connection |-> c]
            /\ UNCHANGED <<app_smoother, app_writer>>
            /\ UNCHANGED recVars
       ELSE IF ~pose.detected THEN
            /\ UNCHANGED <<app_smoother, app_writer, app_sent>>
            /\ UNCHANGED recVars
       ELSE
            \E r \in { apply_smoothing(SmootherOf(c), pose.landmarks) } :
                /\ app_smoother' = [app_smoother EXCEPT !.previous = r.previous]
                /\ app_writer' = IF app_smoother.set THEN c ELSE app_writer
                /\ app_sent' = PoseUpdate(c, r.landmarks, app_smoother.set, app_writer)
                /\ IF current_session_id # NoSession
                   THEN /\ current_frames' =
                              Append(current_frames,
                                     RecordingFrame(NextFrameId, now - recording_start_time,
                                                    r.landmarks, Some(<<>>)))
                        /\ UNCHANGED <<current_session_id, recording_start_time, target_fps,
                                       files, now, uuids, calls, result,
                                       stop_returned, deleted_since, replaced>>
                   ELSE UNCHANGED recVars

\* The handlers of /api/recording/start and /api/recording/stop call the
\* manager's start_recording and stop_recording.
NextApp ==
    \/ \E opened \in BOOLEAN : StartCamera(opened, ALPHA)
    \/ StopCamera
    \/ \E c \in Connections : Connect(c)
    \/ \E c \in Connections : Disconnect(c)
    \/ \E c \in Connections, pose \in DetectInputs : PoseTurn(c, pose)
    \/ start_recording(30)
    \/ stop_recording

\* ------------------------------------------------------------------------
\* Specifications
\* ------------------------------------------------------------------------

vars == <<recVars, retVars, expVars, fltVars, ioVars, rotVars, appVars>>

\* The state after construction, the filter being an ExponentialMovingAverage.
Init == InitRec /\ InitRet /\ InitExp /\ InitFltAs("ema", ALPHA) /\ InitIo /\ InitRot /\ InitApp

\* The same with a filter of any of the three kinds.
InitFilter == InitRec /\ InitRet /\ InitExp /\ InitFlt /\ InitIo /\ InitRot /\ InitApp

\* The recording manager under any sequence of calls.
Spec == Init /\ [][NextRec]_vars

\* The retargeter under any sequence of calls.
SpecRetarget == Init /\ [][NextRet]_vars

\* Exporter instances under any sequence of exports.
SpecExport == Init /\ [][NextExp]_vars

\* A filter under any sequence of smooth and reset calls.
SpecFilter == InitFilter /\ [][NextFlt]_vars

\* Export requests whose file operations may fail.
SpecExportIO == Init /\ [][NextIo]_vars

\* The two rotation functions on any pair of vectors.
SpecRotation == Init /\ [][NextRot]_vars

\* The application's handlers under any interleaving of requests and turns.
SpecApp == Init /\ [][NextApp]_vars

\* ------------------------------------------------------------------------
\* Properties of RecordingManager (checked under Spec)
\* ------------------------------------------------------------------------

\* frame_count == len(frames) and frame_ids 0..frame_count-1 in order.
WellNumbered(recording) ==
    /\ recording.metadata.frame_count = Len(recording.frames)
    /\ \A i \in 1..Len(recording.frames) : recording.frames[i].frame_id = i - 1

\* C1: every Recording that stop_recording returns, and every one it has
\* saved, has metadata.frame_count equal to the number of its frames, and
\* its frames carry the frame_ids 0, 1, ..., frame_count - 1 in that order.
C1_FrameCountAndIds ==
    /\ (result.op = "stop_recording" /\ result.raised = None) => WellNumbered(result.value)
    /\ \A s \in DOMAIN files : WellNumbered(files[s])

\* C1 witness: stop_recording has returned a Recording of two frames or
\* more, of a session that was not the manager's first.
C1_Witness ==
    /\ result.op = "stop_recording" /\ result.raised = None
    /\ Len(result.value.frames) >= 2
    /\ result.value.metadata.session_id >= 2

\* ------------------------------------------------------------------------
\* Properties of retarget_to_blender (checked under SpecRetarget)
\* ------------------------------------------------------------------------

\* C4: retarget_to_blender returns the empty mapping for every landmark
\* list whose length is not exactly 33, longer lists as well as shorter.
C4_EmptyUnlessExactly33 ==
    (ret_called /\ Len(ret_input) # 33) => DOMAIN ret_result = {}

\* C5: retarget_to_blender given fewer than 33 landmarks, the empty list
\* included, returns the empty mapping and raises no exception.
C5_EmptyBelow33 ==
    (ret_called /\ Len(ret_input) < 33) => (~IsRaised(ret_result) /\ DOMAIN ret_result = {})

\* C5 witness: a call with 32 landmarks has returned.
C5_Witness ==
    ret_called /\ Len(ret_input) = 32 /\ DOMAIN ret_result = {}

\* ------------------------------------------------------------------------
\* Reading an exported text
\* ------------------------------------------------------------------------

\* Instance e's last export returned and wrote its text.
Successful(e) == exported[e].called /\ exported[e].raised = None

\* The HIERARCHY block is what precedes the MOTION line; the data lines
\* follow the 'Frames:' and 'Frame Time:' lines.
MotionAt(lines) == CHOOSE i \in 1..Len(lines) : lines[i].words = <<"MOTION">>
HierarchyOf(lines) == SubSeq(lines, 1, MotionAt(lines) - 1)
DataOf(lines) == SubSeq(lines, MotionAt(lines) + 3, Len(lines))

IsJoint(line) == line.words[1] \in {"ROOT", "JOINT"}
IsChannels(line) == line.words[1] = "CHANNELS"
IsEndSite(line) == line.words = <<"End", "Site">>

\* The joints a HIERARCHY block declares, in the order of their blocks.
DeclaredJoints(h) ==
    LET jl == SelectSeq(h, IsJoint)
    IN  [ k \in 1..Len(jl) |-> jl[k].words[2] ]

\* The channels a HIERARCHY block declares, in order, each as
\* <<joint, channel name>>: the k-th CHANNELS line belongs to the k-th joint.
RECURSIVE ChannelsFrom(_, _, _)
ChannelsFrom(joints, cl, k) ==
    IF k > Len(cl) THEN <<>>
    ELSE [ c \in 1..(Len(cl[k].words) - 2) |-> <<joints[k], cl[k].words[c + 2]>> ]
         \o ChannelsFrom(joints, cl, k + 1)

DeclaredChannels(h) == ChannelsFrom(DeclaredJoints(h), SelectSeq(h, IsChannels), 1)

\* The value a channel of a joint takes for the bones retargeted from a
\* frame, in 1/1000000: SCALE_FACTOR times a position coordinate or the
\* Euler angle about the named axis in degrees, and 0 for a missing bone.
ChannelValue(bones, joint, channel) ==
    IF joint \notin DOMAIN bones THEN 0
    ELSE CASE channel = "Xposition" -> PositionValues(bones[joint].position)[1]
           [] channel = "Yposition" -> PositionValues(bones[joint].position)[2]
           [] channel = "Zposition" -> PositionValues(bones[joint].position)[3]
           [] channel = "Xrotation" -> 1000000 * quaternion_to_euler(bones[joint].rotation)[1]
           [] channel = "Yrotation" -> 1000000 * quaternion_to_euler(bones[joint].rotation)[2]
           [] channel = "Zrotation" -> 1000000 * quaternion_to_euler(bones[joint].rotation)[3]

\* A data line gives one value per declared channel, in their order.
LineFollowsChannels(words, channels, bones) ==
    /\ Len(words) = Len(channels)
    /\ \A i \in 1..Len(channels) :
            words[i] = Fixed(ChannelValue(bones, channels[i][1], channels[i][2]), 6)

\* ------------------------------------------------------------------------
\* Properties of BVHExporter (checked under SpecExport)
\* ------------------------------------------------------------------------

\* C6: serializing the same Recording yields the same text (or the same
\* exception), on whichever instance and whatever that instance exported
\* before, a recording without frames included.
C6_SameRecordingSameText ==
    \A a, b \in ExporterIds :
        (exported[a].called /\ exported[b].called
            /\ exported[a].recording = exported[b].recording)
        => (exported[a].raised = exported[b].raised /\ exported[a].lines = exported[b].lines)

\* C6 witness: both instances have written the text of the same recording
\* with frames, one as its first export and the other right after exporting
\* a recording without frames.
C6_Witness ==
    /\ Successful("first") /\ Successful("second")
    /\ exported["first"].recording = exported["second"].recording
    /\ exported["first"].recording.frames # <<>>
    /\ exported["first"].before = "nothing"
    /\ exported["second"].before = "empty"

\* The text of a successful export: every data line follows the declared
\* channels, which are 60, of the joints in the canonical order.
MotionFollowsHierarchy(call) ==
    LET h        == HierarchyOf(call.lines)
        d        == DataOf(call.lines)
        channels == DeclaredChannels(h)
        frames   == call.recording.frames
    IN  /\ DeclaredJoints(h) = bone_order
        /\ Len(channels) = 60
        /\ [ i \in 1..6 |-> channels[i][2] ]
                = <<"Xposition", "Yposition", "Zposition", "Zrotation", "Xrotation", "Yrotation">>
        /\ Len(d) = Len(frames)
        /\ \A f \in 1..Len(frames) :
                LineFollowsChannels(d[f].words, channels,
                                    retarget_to_blender(MotionSource(frames[f])))

\* C7: every MOTION data line gives, one-to-one and in order, the channels
\* the HIERARCHY block declares: 3 root positions, 3 root rotations, then 3
\* rotations for each other bone in the canonical order, which is the order
\* of the JOINT blocks; 60 values, zeros for a frame whose mapping is empty.
C7_MotionMatchesHierarchy ==
    \A e \in ExporterIds : Successful(e) => MotionFollowsHierarchy(exported[e])

\* C7 witness: a text has been written for a recording with a frame that
\* retargets to 19 bones and a frame that retargets to the empty mapping.
C7_Witness ==
    \E e \in ExporterIds :
        /\ Successful(e)
        /\ \E f, g \in 1..Len(exported[e].recording.frames) :
              /\ Len(MotionSource(exported[e].recording.frames[f])) >= 33
              /\ Len(MotionSource(exported[e].recording.frames[g])) < 33

\* The pre-order of the bones below a bone, from its i-th child on.
RECURSIVE PreOrderFrom(_, _)
PreOrderFrom(bone, i) ==
    IF i > Len(BONE_HIERARCHY[bone].children) THEN <<>>
    ELSE << BONE_HIERARCHY[bone].children[i] >>
         \o PreOrderFrom(BONE_HIERARCHY[bone].children[i], 1)
         \o PreOrderFrom(bone, i + 1)

PreOrder == <<"Hips">> \o PreOrderFrom("Hips", 1)

LeafJoints == {"Head", "LeftHand", "RightHand", "LeftFoot", "RightFoot"}

\* The indices of the lines of h that satisfy a test.
JointAt(h) == { i \in 1..Len(h) : IsJoint(h[i]) }
EndSiteAt(h) == { i \in 1..Len(h) : IsEndSite(h[i]) }

\* The line that declares a joint.
LineOfJoint(h, joint) == CHOOSE i \in JointAt(h) : h[i].words[2] = joint

\* The joint whose block holds the End Site at line i: the nearest joint
\* line above it that is indented one level less.
HolderOf(h, i) ==
    LET j == CHOOSE j \in JointAt(h) :
                /\ j < i /\ h[j].indent = h[i].indent - 2
                /\ \A k \in JointAt(h) : (k < i /\ h[k].indent = h[i].indent - 2) => k <= j
    IN  h[j].words[2]

\* What follows the line that declares a joint: '{', OFFSET and CHANNELS,
\* six channels for the root and three for every other joint.
JointHeadOk(h, i) ==
    /\ i + 3 <= Len(h)
    /\ h[i + 1] = Line(h[i].indent, <<"{">>)
    /\ h[i + 2].indent = h[i].indent + 2 /\ h[i + 2].words[1] = "OFFSET"
    /\ h[i + 3] = Line(h[i].indent + 2,
                       IF h[i].words[1] = "ROOT"
                       THEN <<"CHANNELS", "6", "Xposition", "Yposition", "Zposition",
                              "Zrotation", "Xrotation", "Yrotation">>
                       ELSE <<"CHANNELS", "3", "Zrotation", "Xrotation", "Yrotation">>)

\* Braces: no prefix closes more than it opens, and the whole closes all.
Opened(h, n) == Cardinality({ i \in 1..n : h[i].words = <<"{">> })
Closed(h, n) == Cardinality({ i \in 1..n : h[i].words = <<"}">> })
Balanced(h) ==
    /\ \A n \in 1..Len(h) : Closed(h, n) <= Opened(h, n)
    /\ Closed(h, Len(h)) = Opened(h, Len(h))

HierarchyWellFormed(h) ==
    /\ DeclaredJoints(h) = PreOrder
    /\ Len(DeclaredJoints(h)) = 19
    /\ { h[i].words[2] : i \in JointAt(h) } = Bones
    /\ h[2] = Line(0, <<"ROOT", "Hips">>)
    /\ \A i \in JointAt(h) : (h[i].words[1] = "ROOT") = (i = 2)
    /\ \A i \in JointAt(h) : JointHeadOk(h, i)
    /\ Len(SelectSeq(h, IsChannels)) = 19
    /\ \A b \in Bones \ {"Hips"} :
            h[LineOfJoint(h, b)].indent = h[LineOfJoint(h, BONE_HIERARCHY[b].parent)].indent + 2
    /\ Cardinality(EndSiteAt(h)) = 5
    /\ { HolderOf(h, i) : i \in EndSiteAt(h) } = LeafJoints
    /\ Balanced(h)

\* C8: the HIERARCHY block holds each of the 19 bones once, in pre-order
\* from the root: ROOT Hips with 6 channels (X, Y, Z position, then Z, X, Y
\* rotation) and 18 JOINT blocks with 3 rotation channels Z, X, Y; a child
\* block is indented one level deeper than its parent; the five leaf joints
\* hold one End Site each and no other joint does; braces are balanced.
C8_HierarchyBlock ==
    \A e \in ExporterIds : Successful(e) => HierarchyWellFormed(HierarchyOf(exported[e].lines))

\* C8 witness: a text has been written for a recording with frames and one
\* for a recording without.
C8_Witness ==
    /\ Successful("first") /\ exported["first"].recording.frames # <<>>
    /\ Successful("second") /\ exported["second"].recording.frames = <<>>

\* The tree the specification enumerates, as its <<parent, child>> edges.
TreeEdges ==
    { <<"Hips", "Spine">>, <<"Hips", "LeftUpLeg">>, <<"Hips", "RightUpLeg">>,
      <<"Spine", "Chest">>,
      <<"Chest", "Neck">>, <<"Chest", "LeftShoulder">>, <<"Chest", "RightShoulder">>,
      <<"Neck", "Head">>,
      <<"LeftShoulder", "LeftUpperArm">>, <<"LeftUpperArm", "LeftForeArm">>,
      <<"LeftForeArm", "LeftHand">>,
      <<"RightShoulder", "RightUpperArm">>, <<"RightUpperArm", "RightForeArm">>,
      <<"RightForeArm", "RightHand">>,
      <<"LeftUpLeg", "LeftLeg">>, <<"LeftLeg", "LeftFoot">>,
      <<"RightUpLeg", "RightLeg">>, <<"RightLeg", "RightFoot">> }

\* The edges the parent fields give and the edges the children fields give.
ParentEdges ==
    { <<BONE_HIERARCHY[b].parent, b>> : b \in { c \in DOMAIN BONE_HIERARCHY : BONE_HIERARCHY[c].parent # None } }
ChildEdges ==
    UNION { { <<b, BONE_HIERARCHY[b].children[i]>> : i \in 1..Len(BONE_HIERARCHY[b].children) }
            : b \in DOMAIN BONE_HIERARCHY }

\* Following parent fields from a bone reaches Hips within n steps.
RECURSIVE ReachesRoot(_, _)
ReachesRoot(bone, n) ==
    \/ bone = "Hips"
    \/ /\ n > 0
       /\ bone \in DOMAIN BONE_HIERARCHY
       /\ BONE_HIERARCHY[bone].parent # None
       /\ ReachesRoot(BONE_HIERARCHY[bone].parent, n - 1)

\* C9: the static hierarchy is a tree of exactly 19 bones rooted at Hips:
\* Hips alone has no parent, every other bone has one parent and is in that
\* parent's children list and in no other (the two fields agree), no bone
\* is listed twice, every bone reaches Hips by its parents (so there is no
\* cycle), and the edges are those of the tree the specification gives.
C9_StaticTree ==
    /\ Cardinality(DOMAIN BONE_HIERARCHY) = 19
    /\ \A b \in DOMAIN BONE_HIERARCHY : (BONE_HIERARCHY[b].parent = None) = (b = "Hips")
    /\ ParentEdges = ChildEdges
    /\ \A b \in DOMAIN BONE_HIERARCHY :
            Cardinality({ BONE_HIERARCHY[b].children[i] : i \in 1..Len(BONE_HIERARCHY[b].children) })
                = Len(BONE_HIERARCHY[b].children)
    /\ \A b \in DOMAIN BONE_HIERARCHY : ReachesRoot(b, 19)
    /\ ChildEdges = TreeEdges
    /\ \A e \in ExporterIds :
            Successful(e) =>
                \A b \in DOMAIN BONE_HIERARCHY \ {"Hips"} :
                    HolderOf(HierarchyOf(exported[e].lines),
                             LineOfJoint(HierarchyOf(exported[e].lines), b))
                        = BONE_HIERARCHY[b].parent

\* C9 witness: an export has walked the hierarchy and written a block for
\* every bone.
C9_Witness ==
    \E e \in ExporterIds :
        Successful(e) /\ Len(DeclaredJoints(HierarchyOf(exported[e].lines))) = 19

\* The landmark list the claim names for a frame: its world_landmarks when
\* present and not empty, else its screen-space landmarks.
ClaimedSource(frame) ==
    IF ~frame.world_landmarks.is_none /\ Len(frame.world_landmarks.list) > 0
    THEN frame.world_landmarks.list
    ELSE frame.landmarks

IsOffset(line) == line.words[1] = "OFFSET"

\* The bones whose offset is the plain difference of two landmarks, with
\* the landmarks the bone runs between.
PlainBones ==
    [ LeftUpperArm  |-> <<LEFT_SHOULDER, LEFT_ELBOW>>,
      LeftForeArm   |-> <<LEFT_ELBOW, LEFT_WRIST>>,
      RightUpperArm |-> <<RIGHT_SHOULDER, RIGHT_ELBOW>>,
      RightForeArm  |-> <<RIGHT_ELBOW, RIGHT_WRIST>>,
      LeftLeg       |-> <<LEFT_HIP, LEFT_KNEE>>,
      RightLeg      |-> <<RIGHT_HIP, RIGHT_KNEE>> ]

\* The OFFSET line of a plain bone prints 100 times the difference of its
\* two landmarks in src (coordinates in hundredths, printed in 1/10000).
PlainOffsetOk(h, src, b) ==
    LET line == h[LineOfJoint(h, b) + 2]
        from == Row(src, PlainBones[b][1])
        to   == Row(src, PlainBones[b][2])
    IN  line.words = << "OFFSET", Fixed(100 * 100 * (to[1] - from[1]), 4),
                        Fixed(100 * 100 * (to[2] - from[2]), 4),
                        Fixed(100 * 100 * (to[3] - from[3]), 4) >>

\* C10: the OFFSET values of an export depend only on the first frame of
\* the Recording: they come from its world_landmarks when that list is
\* present and not empty and from its landmarks otherwise, scaled by 100,
\* and two recordings that differ only after the first frame get the same
\* OFFSET lines.
C10_OffsetsFromFirstFrame ==
    /\ \A e \in ExporterIds :
            (Successful(e) /\ exported[e].recording.frames # <<>>) =>
                \A b \in DOMAIN PlainBones :
                    PlainOffsetOk(HierarchyOf(exported[e].lines),
                                  ClaimedSource(exported[e].recording.frames[1]), b)
    /\ \A a, b \in ExporterIds :
            (/\ Successful(a) /\ exported[a].recording.frames # <<>>
             /\ Successful(b) /\ exported[b].recording.frames # <<>>
             /\ exported[a].recording.frames[1] = exported[b].recording.frames[1])
            => SelectSeq(HierarchyOf(exported[a].lines), IsOffset)
                 = SelectSeq(HierarchyOf(exported[b].lines), IsOffset)

\* C10 witness: two texts have been written for recordings that share a
\* first frame with world landmarks and differ in a later frame.
C10_Witness ==
    /\ Successful("first") /\ Successful("second")
    /\ Len(exported["first"].recording.frames) >= 2
    /\ Len(exported["second"].recording.frames) >= 2
    /\ exported["first"].recording.frames[1] = exported["second"].recording.frames[1]
    /\ Truthy(exported["first"].recording.frames[1].world_landmarks)
    /\ exported["first"].recording.frames[2].landmarks
            # exported["second"].recording.frames[2].landmarks

\* The line of the End Site block of a leaf joint, and the OFFSET line in it.
EndSiteOf(h, joint) == CHOOSE i \in EndSiteAt(h) : HolderOf(h, i) = joint

\* The square of an offset's magnitude in hundredths of a unit (the offsets
\* are whole hundredths); 1.0 is 100 and its square 10000.
MagnitudeSq(offset) ==
    (offset[1] \div 100) * (offset[1] \div 100)
    + (offset[2] \div 100) * (offset[2] \div 100)
    + (offset[3] \div 100) * (offset[3] \div 100)

\* The End Site offset the rule gives for a rest offset, in 1/10000.
EndSiteRule(offset) ==
    IF MagnitudeSq(offset) > 10000
    THEN <<offset[1] \div 10, offset[2] \div 10, offset[3] \div 10>>
    ELSE <<0, 50000, 0>>

EndSiteOk(h, offsets, b) ==
    h[EndSiteOf(h, b) + 2].words
        = << "OFFSET", Fixed(EndSiteRule(offsets[b])[1], 4),
             Fixed(EndSiteRule(offsets[b])[2], 4),
             Fixed(EndSiteRule(offsets[b])[3], 4) >>

\* C11: in every exported text, the End Site offset of each leaf bone is
\* 0.1 times the bone's rest offset when that offset is longer than 1.0
\* and (0, 5.0, 0) otherwise, a length of exactly 1.0 and the default
\* offsets of a recording without frames included.
C11_EndSiteRule ==
    \A e \in ExporterIds :
        Successful(e) =>
            \A b \in LeafJoints :
                EndSiteOk(HierarchyOf(exported[e].lines), bone_offsets[e], b)

\* C11 witness: texts have been written for a recording whose first frame
\* gives LeftFoot a rest offset of length exactly 1.0 and RightFoot a longer
\* one, and for a recording without frames.
C11_Witness ==
    /\ Successful("first")
    /\ exported["first"].recording.frames # <<>>
    /\ MagnitudeSq(bone_offsets["first"]["LeftFoot"]) = 10000
    /\ MagnitudeSq(bone_offsets["first"]["RightFoot"]) > 10000
    /\ Successful("second")
    /\ exported["second"].recording.frames = <<>>

\* A printed number with k digits after the point.
HasDecimals(word, k) == Len(word.frac) = k

\* An OFFSET line of three numbers with 4 decimals each.
OffsetLineFormatted(line) ==
    /\ Len(line.words) = 4
    /\ \A i \in 2..4 : HasDecimals(line.words[i], 4)

\* A data line whose values all have 6 decimals.
DataLineFormatted(line) == \A i \in 1..Len(line.words) : HasDecimals(line.words[i], 6)

\* C12: in every exported text each OFFSET line of the HIERARCHY block, the
\* root's, the joints' and the End Sites', prints three values with 4
\* decimal digits, and each value of each MOTION data line is printed with
\* 6 decimal digits.
C12_NumberFormat ==
    \A e \in ExporterIds :
        Successful(e) =>
            /\ \A i \in 1..Len(HierarchyOf(exported[e].lines)) :
                    IsOffset(HierarchyOf(exported[e].lines)[i])
                        => OffsetLineFormatted(HierarchyOf(exported[e].lines)[i])
            /\ \A i \in 1..Len(DataOf(exported[e].lines)) :
                    DataLineFormatted(DataOf(exported[e].lines)[i])

\* ------------------------------------------------------------------------
\* Properties of export's file handling (checked under SpecExportIO)
\* ------------------------------------------------------------------------

\* C2: once export has started, and after it has failed or been cancelled,
\* the file at output_path is untouched (absent or with its previous
\* content) or holds the complete BVH text; no partly written file is ever
\* to be seen there.
C2_NoPartialFile ==
    io_pc \in {"generated", "open", "raised", "failed"} =>
        \/ io_file = io_before
        \/ io_file = [exists |-> TRUE, lines |-> io_content]

\* ------------------------------------------------------------------------
\* Properties of the filters (checked under SpecFilter)
\* ------------------------------------------------------------------------

\* C3: a smooth call whose number of landmarks differs from that of the
\* preceding frame of the session is rejected with an error by each of the
\* three filters; none returns a list for such a frame.
C3_CountMismatchRejected ==
    (/\ flt_result.op = "smooth"
     /\ ~flt_result.preceding.is_none
     /\ Len(flt_result.input) # Len(flt_result.preceding.list))
    => flt_result.raised # None

\* The x, y, z values of a landmark list.
Coordinates(list) == [ i \in 1..Len(list) |-> <<list[i].x, list[i].y, list[i].z>> ]

\* alpha * current + (1 - alpha) * previous for one coordinate, in thousandths.
Blend(alpha, current, previous) ==
    (alpha * current) \div 1000 + ((1000 - alpha) * previous) \div 1000

\* out is the blend of cur and prev in each of x, y and z.
BlendedLandmark(alpha, out, cur, prev) ==
    /\ out.x = Blend(alpha, cur.x, prev.x)
    /\ out.y = Blend(alpha, cur.y, prev.y)
    /\ out.z = Blend(alpha, cur.z, prev.z)

\* C13: the first smooth call of an ExponentialMovingAverage returns its
\* input unchanged and stores it as the state; every later call returns,
\* for each landmark and each of x, y, z, alpha * current + (1 - alpha) *
\* previous, previous being what the filter returned for that landmark on
\* the preceding call, and as many landmarks as it was given when the
\* preceding call returned as many.
C13_EmaRecurrence ==
    (flt_kind = "ema" /\ flt_result.op = "smooth") =>
        /\ flt_result.raised = None
        /\ flt_result.returned.is_none =>
                (flt_result.output = flt_result.input /\ ema_previous = Some(flt_result.input))
        /\ ~flt_result.returned.is_none =>
                /\ \A i \in 1..MinOf(Len(flt_result.input), Len(flt_result.returned.list)) :
                        /\ i <= Len(flt_result.output)
                        /\ BlendedLandmark(ema_alpha, flt_result.output[i],
                                           flt_result.input[i], flt_result.returned.list[i])
                /\ Len(flt_result.input) = Len(flt_result.returned.list)
                        => Len(flt_result.output) = Len(flt_result.input)

\* C13 witness: a smoothing call with alpha < 1 has followed a call whose
\* output differed from its raw input.
C13_Witness ==
    /\ flt_kind = "ema" /\ ema_alpha < 1000
    /\ flt_result.op = "smooth"
    /\ ~flt_result.returned.is_none /\ ~flt_result.preceding.is_none
    /\ Len(flt_result.output) = MaxFilterLen
    /\ Coordinates(flt_result.returned.list) # Coordinates(flt_result.preceding.list)

\* C14: with alpha = 1 every smooth call given as many landmarks as the
\* preceding call returned (the landmark count of a sequence of frames of
\* constant count) returns the x, y and z values of its input.
C14_AlphaOneIsIdentity ==
    (/\ flt_kind = "ema" /\ ema_alpha = 1000
     /\ flt_result.op = "smooth"
     /\ flt_result.returned.is_none \/ Len(flt_result.returned.list) = Len(flt_result.input))
    => Coordinates(flt_result.output) = Coordinates(flt_result.input)

\* C14 witness: with alpha = 1, a frame has followed a different frame of
\* the same, nonzero, number of landmarks.
C14_Witness ==
    /\ flt_kind = "ema" /\ ema_alpha = 1000
    /\ flt_result.op = "smooth"
    /\ ~flt_result.preceding.is_none
    /\ Len(flt_result.input) = MaxFilterLen
    /\ Len(flt_result.preceding.list) = MaxFilterLen
    /\ Coordinates(flt_result.preceding.list) # Coordinates(flt_result.input)

\* C15: an ExponentialMovingAverage fed the same frame on every call
\* returns that frame's x, y and z values on every call: when the
\* preceding call was given the frame and returned it, the call returns it.
C15_ConstantIsFixedPoint ==
    (/\ flt_kind = "ema"
     /\ flt_result.op = "smooth"
     /\ ~fresh.built
     /\ flt_result.preceding = Some(flt_result.input)
     /\ ~flt_result.returned.is_none
     /\ Coordinates(flt_result.returned.list) = Coordinates(flt_result.input))
    => Coordinates(flt_result.output) = Coordinates(flt_result.input)

\* C16: the first smooth call of a KalmanFilter and of a OneEuroFilter
\* returns its input unmodified; the Kalman filter then holds the measured
\* positions as states with identity covariances, the One-Euro filter the
\* input as previous values, zero derivatives and the given timestamp.
C16_FirstCallPassesThrough ==
    (flt_result.op = "smooth" /\ flt_result.preceding.is_none) =>
        /\ flt_kind = "kalman" =>
                /\ flt_result.raised = None
                /\ flt_result.output = flt_result.input
                /\ kal_states = Some(Coordinates(flt_result.input))
                /\ kal_covariances = Some([ i \in 1..Len(flt_result.input) |-> 10000 ])
        /\ flt_kind = "one_euro" =>
                /\ flt_result.raised = None
                /\ flt_result.output = flt_result.input
                /\ oe_previous_values = Some(flt_result.input)
                /\ oe_previous_derivatives
                        = Some([ i \in 1..Len(flt_result.input) |-> [x |-> 0, y |-> 0, z |-> 0] ])
                /\ oe_previous_time = flt_result.timestamp

\* C16 witness: a filter of one of the two kinds has had its first call,
\* with a frame of landmarks (and, for One-Euro, a timestamp other than 0).
C16_Witness ==
    /\ flt_result.op = "smooth" /\ flt_calls = 1
    /\ Len(flt_result.input) = MaxFilterLen
    /\ \/ flt_kind = "kalman"
       \/ flt_kind = "one_euro" /\ flt_result.timestamp.value > 0

\* C17: for each of the three filters, the smooth call after reset()
\* returns its input unchanged, and every smooth call after a reset gives
\* what a filter constructed at the reset with the same parameters and fed
\* the same frames gives.
C17_ResetForgets ==
    (fresh.built /\ flt_result.op = "smooth") =>
        /\ flt_result.raised = fresh.outcome.raised
        /\ flt_result.output = fresh.outcome.output
        /\ flt_result.preceding.is_none =>
                (flt_result.raised = None /\ flt_result.output = flt_result.input)

\* C17 witness: a filter that held state was reset and has then smoothed a
\* second frame, giving something other than its input.
C17_Witness ==
    /\ fresh.built /\ fresh.held
    /\ flt_result.op = "smooth"
    /\ ~flt_result.preceding.is_none
    /\ flt_result.raised = None
    /\ Len(flt_result.output) = MaxFilterLen
    /\ Coordinates(flt_result.output) # Coordinates(flt_result.input)

\* ------------------------------------------------------------------------
\* Properties of the rotation functions (checked under SpecRotation)
\* ------------------------------------------------------------------------

\* A quaternion none of whose components is NaN.
IsFinite(quat) == \A i \in 1..4 : quat[i].d # 0

\* The sum of two fractions, in lowest terms.
RatAdd(a, b) ==
    [n |-> (a.n * b.d + b.n * a.d) \div GCD(a.n * b.d + b.n * a.d, a.d * b.d),
     d |-> (a.d * b.d) \div GCD(a.n * b.d + b.n * a.d, a.d * b.d)]

\* The square of a component [s, n, d] is n / d.
SquareOf(c) == [n |-> c.n, d |-> c.d]

\* w^2 + x^2 + y^2 + z^2 = 1
IsUnit(quat) ==
    RatAdd(RatAdd(SquareOf(quat[1]), SquareOf(quat[2])),
           RatAdd(SquareOf(quat[3]), SquareOf(quat[4]))) = [n |-> 1, d |-> 1]

\* C18: vector_to_rotation and calculate_bone_rotation return a finite unit
\* quaternion for every pair of input vectors, zero-length bones and
\* parallel and anti-parallel vectors included.
C18_FiniteUnitQuaternion ==
    rot_op # "none" => (IsFinite(rot_result) /\ IsUnit(rot_result))

\* C19: vector_to_rotation(v, v) is the identity quaternion [1, 0, 0, 0]
\* for every nonzero v.
C19_SameVectorIsIdentity ==
    (rot_op = "vector_to_rotation" /\ rot_from = rot_to /\ rot_from # <<0, 0, 0>>)
    => rot_result = <<Comp(1, 1, 1), Comp(0, 0, 1), Comp(0, 0, 1), Comp(0, 0, 1)>>

\* C19 witness: vector_to_rotation has been called with a skew vector twice.
C19_Witness ==
    /\ rot_op = "vector_to_rotation"
    /\ rot_from = rot_to
    /\ rot_from[1] # 0 /\ rot_from[2] # 0 /\ rot_from[3] # 0

\* The direction of the vector part of a finite quaternion whose vector
\* part is not zero, as a vector of whole numbers: the squares of the
\* three components, brought to their common denominator and divided by
\* their common divisor, are squares of whole numbers.
AxisSquares(quat) ==
    << quat[2].n * quat[3].d * quat[4].d,
       quat[3].n * quat[2].d * quat[4].d,
       quat[4].n * quat[2].d * quat[3].d >>

AxisDirection(quat) ==
    LET m == AxisSquares(quat)
        g == GCD(m[1], GCD(m[2], m[3]))
    IN  << quat[2].s * SqrtSearch(m[1] \div g, 0, 46340),
           quat[3].s * SqrtSearch(m[2] \div g, 0, 46340),
           quat[4].s * SqrtSearch(m[3] \div g, 0, 46340) >>

C21_SessionsHaveOwnFilterState ==
    (app_connections = Connections /\ app_sent.type = "pose_update" /\ app_sent.smoothed)
        => app_sent.state_of \in {"none", app_sent.connection}

\* ------------------------------------------------------------------------
\* Properties of the MOTION block and the rest offsets (checked under SpecExport)
\* ------------------------------------------------------------------------

\* 100 times the midpoint of the left-hip and right-hip landmarks, in
\* 1/1000000, for landmarks in hundredths.
ScaledHipMidpoint(landmarks) ==
    VScale(500000, VAdd(Row(landmarks, LEFT_HIP), Row(landmarks, RIGHT_HIP)))

\* The first six fields of a data line: the root's position and rotation.
RootChannels(line) == SubSeq(line.words, 1, 6)

\* The root channels that stand for position p (in 1/1000000) and no rotation.
RootAt(p) ==
    << Fixed(p[1], 6), Fixed(p[2], 6), Fixed(p[3], 6), Fixed(0, 6), Fixed(0, 6), Fixed(0, 6) >>

\* The scenario: two frames at 30 fps with left_hip = (-0.1, 0, 0) and
\* right_hip = (0.1, 0, 0).
ScenarioRecording == MkRecording(30, <<FrameT1, FrameT1>>)

\* C22: in every text written, the data line of a frame retargeted from 33
\* landmarks starts with 100 times the midpoint of these landmarks' hips,
\* followed by three zeros; the text of the scenario has Frame Time 0.033333
\* and root channels 0 0 0 / 0 0 0 on both of its lines.
C22_RootChannels ==
    \A e \in ExporterIds : Successful(e) =>
        LET frames == exported[e].recording.frames
            lines  == exported[e].lines
            d      == DataOf(lines)
        IN  /\ \A f \in 1..Len(frames) :
                    Len(MotionSource(frames[f])) = 33
                    => RootChannels(d[f]) = RootAt(ScaledHipMidpoint(MotionSource(frames[f])))
            /\ exported[e].recording = ScenarioRecording
               => /\ lines[MotionAt(lines) + 2].words
                        = <<"Frame", "Time:", [neg |-> FALSE, int |-> 0, frac |-> <<0, 3, 3, 3, 3, 3>>]>>
                  /\ Len(d) = 2
                  /\ \A f \in 1..2 : RootChannels(d[f]) = RootAt(<<0, 0, 0>>)

\* C22 witness: the text of the scenario has been written, and so has a
\* text with a frame whose hips are not centred on the origin.
C22_Witness ==
    /\ \E e \in ExporterIds : Successful(e) /\ exported[e].recording = ScenarioRecording
    /\ \E e \in ExporterIds :
          /\ Successful(e)
          /\ \E f \in 1..Len(exported[e].recording.frames) :
                /\ Len(MotionSource(exported[e].recording.frames[f])) = 33
                /\ ScaledHipMidpoint(MotionSource(exported[e].recording.frames[f])) # <<0, 0, 0>>

\* ------------------------------------------------------------------------
\* Further properties of retarget_to_blender (checked under SpecRetarget)
\* ------------------------------------------------------------------------

\* The names in the exporter's canonical bone order.
OrderedBones == { bone_order[i] : i \in 1..Len(bone_order) }

\* C23: for 33 landmarks retarget_to_blender returns a mapping whose keys
\* are exactly the 19 bones of BONE_HIERARCHY, which are the names of the
\* exporter's bone order, each with a position and a rotation; and a call
\* with the landmarks of the retargeter's first call returns what the first
\* call returned, whatever was called in between.
C23_NineteenBonesDeterministic ==
    /\ (ret_called /\ Len(ret_input) = 33) =>
            /\ ~IsRaised(ret_result)
            /\ DOMAIN ret_result = DOMAIN BONE_HIERARCHY
            /\ DOMAIN ret_result = OrderedBones
            /\ Cardinality(DOMAIN ret_result) = 19
            /\ \A bone \in DOMAIN ret_result :
                    /\ DOMAIN ret_result[bone] = {"position", "rotation"}
                    /\ Len(ret_result[bone].position) = 3
                    /\ Len(ret_result[bone].rotation) = 4
    /\ (ret_first.called /\ ret_first.input = ret_input) => ret_result = ret_first.result

\* C23 witness: a call with 33 landmarks, which are the landmarks of the
\* retargeter's first call, has returned 19 bones.
C23_Witness ==
    /\ ret_called /\ Len(ret_input) = 33
    /\ ret_first.called /\ ret_first.input = ret_input
    /\ Cardinality(DOMAIN ret_result) = 19

\* ------------------------------------------------------------------------
\* Further properties of RecordingManager (checked under Spec)
\* ------------------------------------------------------------------------

\* The last call was op of session_id, and it returned.
LastCallOn(op, session_id) ==
    result.op = op /\ result.raised = None /\ result.session_id = session_id

\* The session ids of the metadata list_recordings returned.
ListedSessions == { result.value[i].session_id : i \in 1..Len(result.value) }

\* While stop_recording has returned a recording of session s and
\* delete_recording(s) has not been called since, get_recording(s) returns
\* that recording and list_recordings has its metadata.
StoredIsServed ==
    \A s \in DOMAIN stop_returned :
        /\ LastCallOn("get_recording", s) => result.value = SomeRecording(stop_returned[s])
        /\ result.op = "list_recordings" =>
                \E i \in 1..Len(result.value) : result.value[i] = stop_returned[s].metadata

\* Once delete_recording(s) has been called after the stop_recording of s,
\* get_recording(s) returns None and list_recordings has no s.
DeletedIsGone ==
    \A s \in deleted_since :
        /\ s \notin DOMAIN stop_returned
        /\ LastCallOn("get_recording", s) => result.value = NoRecording
        /\ result.op = "list_recordings" => s \notin ListedSessions

\* A call of delete_recording(s) returns True exactly when s has a file,
\* which it has when stop_recording returned s and no delete followed, and
\* has not when a delete followed.
DeleteStep ==
    (calls' # calls /\ result'.op = "delete_recording") =>
        /\ result'.value = (result'.session_id \in DOMAIN files)
        /\ result'.session_id \in DOMAIN stop_returned => result'.value = TRUE
        /\ result'.session_id \in deleted_since => result'.value = FALSE
        /\ result'.session_id \notin DOMAIN files'

\* C24: after stop_recording returns a recording of session s,
\* get_recording(s) returns a recording with the same metadata and frames
\* and list_recordings contains s, until delete_recording(s) is called;
\* delete_recording(s) returns True exactly when a stored recording s
\* exists, and after it get_recording(s) returns None, list_recordings has
\* no s and another delete_recording(s) returns False.
C24_StoredUntilDeleted == [](StoredIsServed /\ DeletedIsGone) /\ [][DeleteStep]_vars

\* C24 witness: get_recording has returned the recording of a stopped
\* session that has a frame with world landmarks.
C24_Witness ==
    /\ result.op = "get_recording" /\ ~result.value.is_none
    /\ result.session_id \in DOMAIN stop_returned
    /\ \E i \in 1..Len(result.value.recording.frames) :
            ~result.value.recording.frames[i].world_landmarks.is_none

\* The text BVHExporter().export writes for a recording, as a new instance
\* of the exporter generates it.
BvhOf(recording) ==
    export_text(calculate_bone_offsets(EmptyMapping, recording), recording)

\* The number a printed decimal stands for, in units of its last digit.
RECURSIVE DigitsValue(_, _)
DigitsValue(digits, acc) ==
    IF digits = <<>> THEN acc ELSE DigitsValue(Tail(digits), 10 * acc + Head(digits))
DecimalValue(number) == DigitsValue(number.frac, number.int)

\* v / 1000000 is 1 / fps to six decimals: no multiple of 0.000001 is nearer.
IsFrameTime(v, fps) ==
    /\ 2 * (v * fps - 1000000) <= fps
    /\ 2 * (1000000 - v * fps) <= fps

\* The MOTION block of a text against the recording it was written for.
MotionHeaderOk(lines, recording) ==
    LET at == MotionAt(lines)
        d  == DataOf(lines)
    IN  /\ lines[at + 1].words = <<"Frames:", ToString(Len(d))>>
        /\ Len(d) = Len(recording.frames)
        /\ \A i \in 1..Len(d) :
                /\ recording.frames[i].frame_id = i - 1
                /\ d[i] = MotionLine(frame_data(recording.frames[i]))
        /\ SubSeq(lines[at + 2].words, 1, 2) = <<"Frame", "Time:">>
        /\ ~lines[at + 2].words[3].neg
        /\ Len(lines[at + 2].words[3].frac) = 6
        /\ IsFrameTime(DecimalValue(lines[at + 2].words[3]), recording.metadata.fps)

\* C25: in the BVH text of a Recording that stop_recording returned, the
\* number on the 'Frames:' line is the number of data lines that follow,
\* the data lines are those of the recorded frames in frame_id order, and
\* the 'Frame Time:' value is 1/fps to the six decimals printed.
C25_FramesHeaderMatches ==
    (result.op = "stop_recording" /\ result.raised = None) =>
        \A bvh \in { BvhOf(result.value) } :
            bvh.raised = None => MotionHeaderOk(bvh.lines, result.value)

\* C25 witness: stop_recording has returned a recording of two frames or
\* more at 30 fps, which the exporter can write.
C25_Witness ==
    /\ result.op = "stop_recording" /\ result.raised = None
    /\ Len(result.value.frames) >= 2
    /\ result.value.metadata.fps = 30
    /\ BvhOf(result.value).raised = None

\* The hand and foot bones with the landmark they start at and the
\* extremity landmarks they may end at: the index finger for a hand, the
\* foot index or the heel for a foot.
ExtremityBones ==
    [ LeftHand  |-> [base |-> LEFT_WRIST,  tips |-> {LEFT_INDEX}],
      RightHand |-> [base |-> RIGHT_WRIST, tips |-> {RIGHT_INDEX}],
      LeftFoot  |-> [base |-> LEFT_ANKLE,  tips |-> {LEFT_FOOT_INDEX, LEFT_HEEL}],
      RightFoot |-> [base |-> RIGHT_ANKLE, tips |-> {RIGHT_FOOT_INDEX, RIGHT_HEEL}] ]

\* The OFFSET line that prints half the vector from landmark base to
\* landmark tip of src, scaled by 100 (coordinates in hundredths, printed
\* in 1/10000).
HalfVectorLine(line, src, base, tip) ==
    line.words = << "OFFSET", Fixed(5000 * (Row(src, tip)[1] - Row(src, base)[1]), 4),
                    Fixed(5000 * (Row(src, tip)[2] - Row(src, base)[2]), 4),
                    Fixed(5000 * (Row(src, tip)[3] - Row(src, base)[3]), 4) >>

ExtremityOffsetOk(h, src, b) ==
    \E tip \in ExtremityBones[b].tips :
        HalfVectorLine(h[LineOfJoint(h, b) + 2], src, ExtremityBones[b].base, tip)

\* C26: in every text written for a recording with frames, the OFFSET of
\* LeftHand, RightHand, LeftFoot and RightFoot is half the vector from the
\* wrist or the ankle to the extremity landmark of the first frame, scaled
\* by 100.
C26_ExtremityOffsets ==
    \A e \in ExporterIds :
        (Successful(e) /\ exported[e].recording.frames # <<>>) =>
            \A b \in DOMAIN ExtremityBones :
                ExtremityOffsetOk(HierarchyOf(exported[e].lines),
                                  OffsetSource(exported[e].recording.frames[1]), b)

\* The hands alone follow the rule.
C26_HandOffsets ==
    \A e \in ExporterIds :
        (Successful(e) /\ exported[e].recording.frames # <<>>) =>
            \A b \in {"LeftHand", "RightHand"} :
                ExtremityOffsetOk(HierarchyOf(exported[e].lines),
                                  OffsetSource(exported[e].recording.frames[1]), b)

\* ------------------------------------------------------------------------
\* Further properties of the filters (checked under SpecFilter)
\* ------------------------------------------------------------------------

\* The covariances a KalmanFilter holds (a covariance c stands for the
\* diagonal matrix c * eye(3)).
HeldCovariances ==
    IF flt_kind # "kalman" \/ kal_covariances.is_none THEN {}
    ELSE { kal_covariances.list[i] : i \in 1..Len(kal_covariances.list) }

\* C27: for positive process_noise and measurement_noise, every covariance
\* the filter holds and the predicted and innovation covariances the next
\* smooth call forms from it are strictly positive, and the gain of that
\* call lies strictly between 0 and 1.
C27_CovariancesStayPositive ==
    (kal_process_noise > 0 /\ kal_measurement_noise > 0) =>
        \A cov \in HeldCovariances :
            /\ cov > 0
            /\ predicted_cov(cov) > 0
            /\ innovation_cov(cov) > 0
            /\ kalman_gain(cov) > 0
            /\ kalman_gain(cov) < 1000

\* The innovation covariance alone is strictly positive, so that its
\* inverse exists, and the gain is between 0 and 1, 1 included.
C27_InnovationInvertible ==
    (kal_process_noise > 0 /\ kal_measurement_noise > 0) =>
        \A cov \in HeldCovariances :
            /\ cov >= 0
            /\ innovation_cov(cov) > 0
            /\ kalman_gain(cov) > 0
            /\ kalman_gain(cov) <= 1000

\* The interval the claim gives a call at timestamp after one at
\* previous_time: the fallback unless the timestamp has advanced.
ClaimedInterval(timestamp, previous_time) ==
    IF timestamp <= previous_time THEN FALLBACK_INTERVAL ELSE timestamp - previous_time

\* What smooth returns for landmarks when its derivatives and smoothing
\* factors are computed over the interval t_e.
SmoothedOver(t_e, landmarks) ==
    one_euro_smoothed(oe_previous_values.list,
                      one_euro_derivatives(oe_previous_values.list, oe_previous_derivatives.list,
                                           landmarks, t_e, Len(landmarks)),
                      landmarks, t_e)

\* A smooth call on a OneEuroFilter that holds the values of an earlier
\* call, for a frame no longer than these: it returns what the claimed
\* interval gives, and that interval is strictly positive.
LaterOneEuroCall ==
    (/\ flt_kind = "one_euro" /\ ~oe_previous_values.is_none
     /\ flt_calls' # flt_calls /\ flt_result'.op = "smooth"
     /\ Len(flt_result'.input) <= Len(oe_previous_values.list))
    => \A t_e \in { ClaimedInterval(flt_result'.timestamp.value, oe_previous_time.value) } :
            /\ t_e > 0
            /\ flt_result'.raised = None
            /\ flt_result'.output = SmoothedOver(t_e, flt_result'.input)

\* C28: on every OneEuroFilter.smooth call after the first the interval
\* used for the derivative and the smoothing factors is strictly positive:
\* a timestamp that is not greater than the previous one gets the fixed
\* fallback interval, and the call returns without a division by zero.
C28_PositiveInterval == [][LaterOneEuroCall]_vars

\* C28 witness: a OneEuroFilter has smoothed a frame at timestamp 0 right
\* after a smooth call, whose timestamp was 0 or more, and has returned
\* something other than its input.
C28_Witness ==
    /\ flt_kind = "one_euro" /\ flt_result.op = "smooth" /\ flt_result.raised = None
    /\ ~flt_result.preceding.is_none
    /\ flt_result.timestamp.value = 0
    /\ flt_calls >= 3
    /\ flt_result.output # flt_result.input

(***************************************************************************)
(* C29: add_frame and stop_recording without an active session             *)
(***************************************************************************)

\* a call of add_frame or of stop_recording on a manager with no active session
CallWithoutSession ==
    /\ current_session_id = NoSession
    /\ calls' = calls + 1
    /\ result'.op \in {"add_frame", "stop_recording"}

\* the manager's fields and its recording store are what they were before the call
ManagerUnchanged ==
    /\ current_session_id' = NoSession
    /\ current_frames' = current_frames
    /\ recording_start_time' = recording_start_time
    /\ target_fps' = target_fps
    /\ DOMAIN files' = DOMAIN files
    /\ \A s \in DOMAIN files : files'[s] = files[s]

NoSessionStep == CallWithoutSession => (result'.raised = "ValueError" /\ ManagerUnchanged)

\* C29: add_frame and stop_recording called on a RecordingManager with no active
\* session raise ValueError and leave the manager's state unchanged: no session
\* becomes active, no frame is stored and no recording is written or removed.
C29_NoSessionCallsRaise == [][NoSessionStep]_vars

\* stop_recording has raised ValueError on a manager that has no active session
\* and holds a stored recording with frames, which is still stored
C29_Witness ==
    /\ result.op = "stop_recording"
    /\ result.raised = "ValueError"
    /\ current_session_id = NoSession
    /\ current_frames = <<>>
    /\ \E s \in DOMAIN files : files[s].frames # <<>>

(***************************************************************************)
(* C30: start_recording while a session is active                          *)
(***************************************************************************)

\* a session start_recording replaced is not the active one and has no file
ReplacedIsDiscarded ==
    \A s \in DOMAIN replaced : s # current_session_id /\ s \notin DOMAIN files

\* right after start_recording the manager is recording and holds no frame
StartedEmpty ==
    result.op = "start_recording" =>
        /\ result.raised = None
        /\ current_session_id = result.value
        /\ current_session_id # NoSession
        /\ current_frames = <<>>

\* a call of start_recording made while a session is active
ReplacingCall ==
    /\ current_session_id # NoSession
    /\ calls' = calls + 1
    /\ result'.op = "start_recording"

\* the call leaves the manager recording under a new id, with none of the
\* earlier session's frames, and writes nothing to the recording store
ReplacingStep ==
    ReplacingCall =>
        /\ current_session_id' # NoSession
        /\ current_session_id' # current_session_id
        /\ current_session_id' \notin DOMAIN replaced
        /\ current_frames' = <<>>
        /\ files' = files

\* the add_frame that follows a start_recording receives frame_id 0
FirstFrameStep ==
    (result.op = "start_recording" /\ calls' = calls + 1 /\ result'.op = "add_frame") =>
        (result'.raised = None /\ result'.value = 0 /\ Len(current_frames') = 1)

\* C30: calling start_recording while a session is already active replaces that
\* session: the frames added to the earlier session are discarded and are never
\* written to the recording store, the manager stays in the recording state under
\* the new session id, and the next add_frame receives frame_id 0.
C30_StartReplacesSession ==
    /\ [](ReplacedIsDiscarded /\ StartedEmpty)
    /\ [][ReplacingStep /\ FirstFrameStep]_vars

\* a session that held a frame was replaced by start_recording, and the
\* add_frame that followed has returned frame_id 0 to the new session
C30_Witness ==
    /\ \E s \in DOMAIN replaced : replaced[s] # <<>>
    /\ result.op = "add_frame"
    /\ result.raised = None
    /\ result.value = 0
    /\ current_session_id \notin DOMAIN replaced
    /\ Len(current_frames) = 1

====
